---- MODULE Spec2Model ----
(***************************************************************************)
(* Virtual (paper-trading) leveraged position engine of CTB_lsh.           *)
(*                                                                         *)
(* The ledger (virtual_portfolio.py) holds one cash balance and at most    *)
(* one open position and appends a trade record on every entry and exit.   *)
(*                                                                         *)
(* Numbers.  The program computes in binary floating point.  The model     *)
(* computes in fixed point:                                                *)
(*   - money is an integer number of money units, Unit units to one USDT;  *)
(*     every product or quotient is rounded down to a multiple of Quantum  *)
(*     units, Quantum = 2^GuardBits.  Multiplying by 0.5 is exact in       *)
(*     binary floating point; the guard bits keep it exact in the model    *)
(*     for as long as the halved amount is even (Halvable);                *)
(*   - rates are integers over RateDen (0.0004 is 4 / 10000);              *)
(*   - prices are integers chosen so that slippage and the trailing-stop   *)
(*     ratio give integers again.                                          *)
(***************************************************************************)
EXTENDS Integers, Sequences, FiniteSets, TLC

VARIABLES
    initial_balance, \* VirtualPortfolio.initial_balance
    balance,    \* VirtualPortfolio.current_balance
    position,   \* VirtualPortfolio.current_position: <<>> (None) or <<record>>
    trades,     \* rows of the virtual_trades table, in insertion order
    lastCall,   \* the last ledger call that returned: its name, result and log line
    pc,         \* per thread: the statement of enter_position / exit_position it is at
    loc,        \* per thread: the local variables of the call in progress
    monitor,    \* the PositionMonitor object: running, check_count, signal_count,
                \* last_analysis_time
    now,        \* the wall clock, datetime.now(), in seconds
    loops,      \* per monitoring thread ever spawned: where it is in _monitoring_loop
    lastTick,   \* what the last tick of the monitor saw and did
    signal_history, \* SignalDetector.signal_history: per key, the time stored
    emitted     \* the signals detect_signals_for_symbol has returned, in order

monitorVars == <<monitor, now, loops, lastTick>>

signalVars == <<signal_history, emitted>>

vars == <<initial_balance, balance, position, trades, lastCall, pc, loc,
          monitor, now, loops, lastTick, signal_history, emitted>>

ledgerVars == <<balance, position, trades>>

\* SignalDetector.__init__: signal_history = {}: no key has a time
NoSignalHistory == [k \in {"SOL/USDT_ANALYSIS", "BTC/USDT_ANALYSIS"} |-> 0]

-----------------------------------------------------------------------------
(* Bounds of the model *)

\* number of guard bits below the rounding quantum (exact halvings per amount)
GuardBits == 2

\* ledger calls are issued only while the trade log is shorter than this
MaxTrades == 2

\* the monitor's ticks are followed up to this value of check_count
MaxTicks == 2

\* monitoring threads are spawned up to this number
MaxLoops == 2

-----------------------------------------------------------------------------
(* Units *)

Quantum == 2 ^ GuardBits

\* money units per USDT (cents, each split into Quantum parts)
Unit == 100 * Quantum

\* denominator of every rate below
RateDen == 10 ^ 4

\* size units per (money unit / price unit)
SizeUnit == 10 ^ 3

\* None for an optional price (target_price, stop_loss, trailing_stop_price);
\* the code tests these by truthiness, so 0 and None behave alike
None == 0

\* None for current_position and for the result of exit_position
NoPosition == << >>

-----------------------------------------------------------------------------
(* Program constants *)

\* VirtualPortfolio.__init__: initial_balance = 10000.0 (USDT)
DefaultInitialBalance == 10000

\* trading_fee_rate = 0.0004
TradingFeeRate == 4

\* slippage_rate = 0.001
SlippageRate == 10

\* partial_take_profit_ratio = 0.5
PartialTakeProfitRatio == 5000

\* trailing_stop_ratio = 0.02
TrailingStopRatio == 200

\* can_enter_position: min_balance = 100.0 (USDT)
MinBalance == 100

\* enter_position: available_balance = current_balance * 0.95
UtilizationRatio == 9500

\* _calculate_position_metrics: min_value = invested_amount * 0.05
MinValueRatio == 500

\* partial_ratio = 1.0, a full exit
FullRatio == RateDen

-----------------------------------------------------------------------------
(* Inputs *)

\* initial_balance values a ledger is constructed with (in USDT): the
\* default, and a small account just above the entry floor
InitialBalances == {DefaultInitialBalance, 105}

\* symbols as callers pass them
RawSymbols == {"SOL/USDT", "BTCUSDT"}

Directions == {"LONG", "SHORT"}

\* market prices the oracle reports
Prices == {2000, 3000, 4000}

\* prices at which entries are requested
EntryPrices == {2000, 4000}

Leverages == {1, 2}

\* (target_price, stop_loss) pairs a caller passes
TargetStops == {<<None, None>>, <<3000, 2000>>}

-----------------------------------------------------------------------------
(* Arithmetic *)

\* floor(a * b / c) for c > 0, without forming a * b
MulDiv(a, b, c) == (a \div c) * b + (((a % c) * b) \div c)

\* round down to the quantum
RoundQ(x) == (x \div Quantum) * Quantum

\* x * (num / RateDen), rounded
Rate(x, num) == RoundQ(MulDiv(x, num, RateDen))

\* x * (num / RateDen) for a ratio that halves: exact on even amounts
Scale(x, num) == IF num = RateDen THEN x ELSE MulDiv(x, num, RateDen)

Max(a, b) == IF a >= b THEN a ELSE b

Abs(a) == IF a >= 0 THEN a ELSE -a

RECURSIVE GCD(_, _)
GCD(a, b) == IF b = 0 THEN a ELSE GCD(b, a % b)

\* x * (n / d) for the float quotient n / d, which is exact when n / d is
\* 1 or 0.5: the fraction is reduced before it is applied
Ratio(x, n, d) ==
    LET g  == GCD(Abs(n), Abs(d))
        sn == IF d < 0 THEN -n ELSE n
    IN  MulDiv(x, sn \div g, Abs(d) \div g)

\* an amount that multiplication by 0.5 leaves exact
Halvable(x) == x % 2 = 0

\* the element of a one-element set; Only({e(x) : x \in {v}}) is e with x
\* bound to the value of v, computed once (a local variable of the code)
Only(S) == CHOOSE x \in S : TRUE

-----------------------------------------------------------------------------
(* config.normalize_symbol, on the symbols the model passes *)

DefaultSymbol == "SOL/USDT"

NormalizeSymbol(symbol) ==
    CASE symbol = ""         -> DefaultSymbol
      [] symbol = "SOL/USDT" -> "SOL/USDT"
      [] symbol = "BTC/USDT" -> "BTC/USDT"
      [] symbol = "BTCUSDT"  -> "BTC/USDT"
      [] symbol = "SOLUSDT"  -> "SOL/USDT"
      [] OTHER               -> symbol

-----------------------------------------------------------------------------
(* The ledger: pure functions of a ledger value
   L = [balance, position, trades], computed as virtual_portfolio.py does *)

HasPosition(L) == L.position # NoPosition

Pos(L) == L.position[1]

\* a slippage that moves every exit fill the way the entry fill moves
ApplySlippageOneWay(price, direction, action) ==
    IF direction = "LONG"
    THEN MulDiv(price, RateDen + SlippageRate, RateDen)
    ELSE MulDiv(price, RateDen - SlippageRate, RateDen)

\* _apply_slippage: the fill price, always against the trader
ApplySlippage(price, direction, action) ==
    IF action = "ENTER"
    THEN IF direction = "LONG"
         THEN MulDiv(price, RateDen + SlippageRate, RateDen)
         ELSE MulDiv(price, RateDen - SlippageRate, RateDen)
    ELSE IF direction = "LONG"
         THEN MulDiv(price, RateDen - SlippageRate, RateDen)
         ELSE MulDiv(price, RateDen + SlippageRate, RateDen)

\* _calculate_position_metrics without the liquidation guard of lines 316-318
CalculatePositionMetricsNoFloor(p, current_price, position_size) ==
    LET invested_amount == Ratio(p.invested_amount, position_size, p.position_size)
        price_change    == IF p.direction = "LONG"
                           THEN current_price - p.entry_price
                           ELSE p.entry_price - current_price
        position_value  == invested_amount
                           + RoundQ(MulDiv(invested_amount * p.leverage,
                                           price_change, p.entry_price))
    IN  [position_value  |-> position_value,
         invested_amount |-> invested_amount,
         pnl             |-> position_value - invested_amount,
         floored         |-> FALSE]

\* _calculate_position_metrics(current_price, position_size) on position p:
\* the value of the slice, its invested amount and its profit or loss
CalculatePositionMetrics(p, current_price, position_size) ==
    LET invested_amount == Ratio(p.invested_amount, position_size, p.position_size)
        price_change    == IF p.direction = "LONG"
                           THEN current_price - p.entry_price
                           ELSE p.entry_price - current_price
        \* invested_amount * (1 + price_change_rate * leverage)
        raw_value       == invested_amount
                           + RoundQ(MulDiv(invested_amount * p.leverage,
                                           price_change, p.entry_price))
        min_value       == Rate(invested_amount, MinValueRatio)
        position_value  == Max(raw_value, min_value)
    IN  [position_value  |-> position_value,
         invested_amount |-> invested_amount,
         pnl             |-> position_value - invested_amount,
         floored         |-> raw_value < min_value]

\* an exit that charges its fee on the margin of the slice, not its value
ExitQuoteFeeOnMargin(p, exit_price, partial_ratio) ==
    LET actual_exit_price  == ApplySlippage(exit_price, p.direction, "EXIT")
        exit_position_size == Scale(p.position_size, partial_ratio)
        m                  == CalculatePositionMetrics(p, actual_exit_price,
                                                       exit_position_size)
        exit_fee           == Rate(m.invested_amount, TradingFeeRate)
    IN  [actual_exit_price    |-> actual_exit_price,
         exit_position_size   |-> exit_position_size,
         position_value       |-> m.position_value,
         exit_fee             |-> exit_fee,
         final_position_value |-> m.position_value - exit_fee,
         realized_pnl         |-> m.pnl - exit_fee,
         floored              |-> m.floored]

\* exit_position lines 198-214: what the exit of a slice pays
ExitQuote(p, exit_price, partial_ratio) ==
    LET actual_exit_price  == ApplySlippage(exit_price, p.direction, "EXIT")
        exit_position_size == Scale(p.position_size, partial_ratio)
        m                  == CalculatePositionMetrics(p, actual_exit_price,
                                                       exit_position_size)
        exit_fee           == Rate(m.position_value, TradingFeeRate)
    IN  [actual_exit_price    |-> actual_exit_price,
         exit_position_size   |-> exit_position_size,
         position_value       |-> m.position_value,
         exit_fee             |-> exit_fee,
         final_position_value |-> m.position_value - exit_fee,
         realized_pnl         |-> m.pnl - exit_fee,
         floored              |-> m.floored]

\* exit_position lines 220-238: the exit_info the call returns
ExitInfo(p, q, reason, partial_ratio) ==
    [symbol          |-> p.symbol,
     direction       |-> p.direction,
     exit_price      |-> q.actual_exit_price,
     position_size   |-> q.exit_position_size,
     invested_amount |-> Scale(p.invested_amount, partial_ratio),
     realized_pnl    |-> q.realized_pnl,
     exit_reason     |-> reason,
     exit_fee        |-> q.exit_fee,
     partial_exit    |-> partial_ratio < FullRatio]

\* exit_position lines 241-250: the EXIT row
ExitTrade(p, q, reason) ==
    [action          |-> "EXIT",
     symbol          |-> p.symbol,
     direction       |-> p.direction,
     price           |-> q.actual_exit_price,
     size            |-> q.exit_position_size,
     leverage        |-> p.leverage,
     invested_amount |-> 0,
     realized_pnl    |-> q.realized_pnl,
     target_price    |-> None,
     stop_loss       |-> None,
     exit_reason     |-> reason]

\* a partial exit that leaves the whole margin on the remainder
ExitRemainderKeepsMargin(p, q, reason, partial_ratio) ==
    IF partial_ratio < FullRatio
    THEN << [p EXCEPT
               !.position_size   = Scale(@, RateDen - partial_ratio),
               !.total_fees_paid = @ + q.exit_fee,
               !.partial_profit_taken =
                   IF reason = "Partial Take Profit" THEN TRUE ELSE @] >>
    ELSE NoPosition

\* exit_position lines 258-267: the position after the exit
ExitRemainder(p, q, reason, partial_ratio) ==
    IF partial_ratio < FullRatio
    THEN << [p EXCEPT
               !.position_size   = Scale(@, RateDen - partial_ratio),
               !.invested_amount = Scale(@, RateDen - partial_ratio),
               !.total_fees_paid = @ + q.exit_fee,
               !.partial_profit_taken =
                   IF reason = "Partial Take Profit" THEN TRUE ELSE @] >>
    ELSE NoPosition

\* exit_position(exit_price, reason, partial_ratio): the ledger after the
\* call and what it returns (<<>> for None, <<exit_info>> otherwise)
ExitPosition(L, exit_price, reason, partial_ratio) ==
    IF ~HasPosition(L)
    THEN [ledger |-> L, ret |-> << >>]
    ELSE Only({ [ledger |-> [balance  |-> L.balance + q.final_position_value,
                             position |-> ExitRemainder(Pos(L), q, reason, partial_ratio),
                             trades   |-> Append(L.trades, ExitTrade(Pos(L), q, reason))],
                 ret    |-> << ExitInfo(Pos(L), q, reason, partial_ratio) >>]
                : q \in {ExitQuote(Pos(L), exit_price, partial_ratio)} })

\* can_enter_position that refuses a balance equal to the floor
CanEnterPositionAboveFloor(L) == L.balance > MinBalance * Unit

\* can_enter_position
CanEnterPosition(L) == L.balance >= MinBalance * Unit

\* a sizing that puts the whole available balance on the position and
\* charges the fee on top of it
EntryQuoteFeeOnTop(current_balance, direction, entry_price, leverage) ==
    LET actual_entry_price == ApplySlippage(entry_price, direction, "ENTER")
        available_balance  == Rate(current_balance, UtilizationRatio)
        fee_amount         == Rate(available_balance, TradingFeeRate)
        invested_amount    == available_balance
    IN  [actual_entry_price |-> actual_entry_price,
         available_balance  |-> available_balance,
         fee_amount         |-> fee_amount,
         invested_amount    |-> invested_amount,
         position_size      |-> RoundQ(MulDiv(invested_amount * leverage, SizeUnit,
                                              actual_entry_price))]

\* enter_position lines 102-113: fill price and sizing
EntryQuote(current_balance, direction, entry_price, leverage) ==
    LET actual_entry_price == ApplySlippage(entry_price, direction, "ENTER")
        available_balance  == Rate(current_balance, UtilizationRatio)
        fee_amount         == Rate(available_balance, TradingFeeRate)
        invested_amount    == available_balance - fee_amount
    IN  [actual_entry_price |-> actual_entry_price,
         available_balance  |-> available_balance,
         fee_amount         |-> fee_amount,
         invested_amount    |-> invested_amount,
         position_size      |-> RoundQ(MulDiv(invested_amount * leverage, SizeUnit,
                                              actual_entry_price))]

\* float('inf'), the low watermark of a LONG position: above every price
Infinity == 10 ^ 9

\* a position that records the requested price as its entry price
NewPositionAtRequestedPrice(q, symbol, direction, entry_price, leverage, target_price, stop_loss) ==
    [symbol               |-> symbol,
     direction            |-> direction,
     entry_price          |-> entry_price,
     original_entry_price |-> entry_price,
     position_size        |-> q.position_size,
     leverage             |-> leverage,
     invested_amount      |-> q.invested_amount,
     target_price         |-> target_price,
     stop_loss            |-> stop_loss,
     entry_fee            |-> q.fee_amount,
     highest_price        |-> IF direction = "LONG" THEN q.actual_entry_price ELSE 0,
     lowest_price         |-> IF direction = "SHORT" THEN q.actual_entry_price ELSE Infinity,
     trailing_stop_price  |-> None,
     partial_profit_taken |-> FALSE,
     total_fees_paid      |-> q.fee_amount]

\* enter_position lines 116-133: the new position
NewPosition(q, symbol, direction, entry_price, leverage, target_price, stop_loss) ==
    [symbol               |-> symbol,
     direction            |-> direction,
     entry_price          |-> q.actual_entry_price,
     original_entry_price |-> entry_price,
     position_size        |-> q.position_size,
     leverage             |-> leverage,
     invested_amount      |-> q.invested_amount,
     target_price         |-> target_price,
     stop_loss            |-> stop_loss,
     entry_fee            |-> q.fee_amount,
     highest_price        |-> IF direction = "LONG" THEN q.actual_entry_price ELSE 0,
     lowest_price         |-> IF direction = "SHORT" THEN q.actual_entry_price ELSE Infinity,
     trailing_stop_price  |-> None,
     partial_profit_taken |-> FALSE,
     total_fees_paid      |-> q.fee_amount]

\* enter_position lines 139-149: the ENTER row
EnterTrade(q, symbol, direction, leverage, target_price, stop_loss) ==
    [action          |-> "ENTER",
     symbol          |-> symbol,
     direction       |-> direction,
     price           |-> q.actual_entry_price,
     size            |-> q.position_size,
     leverage        |-> leverage,
     invested_amount |-> q.invested_amount,
     realized_pnl    |-> 0,
     target_price    |-> target_price,
     stop_loss       |-> stop_loss,
     exit_reason     |-> ""]

\* an entry that arms the trailing stop at the entry fill
OpenPositionArmed(L, symbol, direction, entry_price, leverage, target_price, stop_loss) ==
    Only({ IF ~r.ret THEN r
           ELSE [r EXCEPT !.ledger.position =
                    << [r.ledger.position[1] EXCEPT
                          !.trailing_stop_price = r.ledger.position[1].entry_price] >>]
           : r \in {IF ~CanEnterPosition(L)
                    THEN [ledger |-> L, ret |-> FALSE, log |-> "insufficient balance"]
                    ELSE Only({ [ledger |-> [balance  |-> L.balance - q.available_balance,
                                             position |-> << NewPosition(q, symbol, direction,
                                                                         entry_price, leverage,
                                                                         target_price,
                                                                         stop_loss) >>,
                                             trades   |-> Append(L.trades,
                                                                 EnterTrade(q, symbol,
                                                                            direction, leverage,
                                                                            target_price,
                                                                            stop_loss))],
                                 ret    |-> TRUE,
                                 log    |-> "entered"]
                                : q \in {EntryQuote(L.balance, direction, entry_price,
                                                    leverage)} })} })

\* enter_position lines 99-155: the entry itself, past the handling of an
\* existing position
OpenPosition(L, symbol, direction, entry_price, leverage, target_price, stop_loss) ==
    IF ~CanEnterPosition(L)
    THEN [ledger |-> L, ret |-> FALSE, log |-> "insufficient balance"]
    ELSE Only({ [ledger |-> [balance  |-> L.balance - q.available_balance,
                             position |-> << NewPosition(q, symbol, direction, entry_price,
                                                         leverage, target_price, stop_loss) >>,
                             trades   |-> Append(L.trades,
                                                 EnterTrade(q, symbol, direction, leverage,
                                                            target_price, stop_loss))],
                 ret    |-> TRUE,
                 log    |-> "entered"]
                : q \in {EntryQuote(L.balance, direction, entry_price, leverage)} })

\* _flip_position: close at the new entry price, then enter the other way
\* (the inner enter_position call has force_flip=True and no position left)
FlipPosition(L, new_direction, new_entry_price, leverage, target_price, stop_loss) ==
    Only({ IF x.ret = << >>
           THEN [ledger |-> L, ret |-> FALSE, log |-> "flip exit failed"]
           ELSE Only({ [e EXCEPT !.log = IF e.ret THEN "flipped" ELSE "flip entry failed"]
                       : e \in {OpenPosition(x.ledger,
                                             IF HasPosition(x.ledger)
                                             THEN Pos(x.ledger).symbol
                                             ELSE x.ret[1].symbol,
                                             new_direction, new_entry_price, leverage,
                                             target_price, stop_loss)} })
           : x \in {ExitPosition(L, new_entry_price, "Position Flip", FullRatio)} })

\* enter_position without the same-side rejection of lines 86-89: a second
\* entry on the same side goes on to open a position
EnterPositionReaverage(L, raw_symbol, direction, entry_price, leverage, target_price, stop_loss, force_flip) ==
    LET symbol == NormalizeSymbol(raw_symbol)
    IN  IF HasPosition(L) /\ ~force_flip /\ Pos(L).symbol = symbol
           /\ Pos(L).direction # direction
        THEN FlipPosition(L, direction, entry_price, leverage, target_price, stop_loss)
        ELSE IF HasPosition(L) /\ ~force_flip /\ Pos(L).symbol # symbol
             THEN OpenPosition(ExitPosition(L, entry_price, "Position Switch",
                                            FullRatio).ledger,
                               symbol, direction, entry_price, leverage,
                               target_price, stop_loss)
             ELSE OpenPosition(L, symbol, direction, entry_price, leverage,
                               target_price, stop_loss)

\* enter_position(symbol, direction, entry_price, leverage, target_price,
\* stop_loss, force_flip): the ledger after the call and the bool it returns
EnterPosition(L, raw_symbol, direction, entry_price, leverage, target_price, stop_loss, force_flip) ==
    LET symbol == NormalizeSymbol(raw_symbol)
    IN  IF HasPosition(L) /\ ~force_flip
        THEN IF Pos(L).symbol = symbol /\ Pos(L).direction = direction
             THEN [ledger |-> L, ret |-> FALSE, log |-> "same position exists"]
             ELSE IF Pos(L).symbol = symbol
                  THEN FlipPosition(L, direction, entry_price, leverage,
                                    target_price, stop_loss)
                  ELSE Only({ [e EXCEPT !.log = IF e.ret THEN "switched"
                                                          ELSE "switch entry failed"]
                              : e \in {OpenPosition(
                                           ExitPosition(L, entry_price, "Position Switch",
                                                        FullRatio).ledger,
                                           symbol, direction, entry_price,
                                           leverage, target_price, stop_loss)} })
        ELSE OpenPosition(L, symbol, direction, entry_price, leverage,
                          target_price, stop_loss)

\* update_trailing_stop without the watermark tests of lines 356 and 362:
\* the stop follows every price
UpdateTrailingStopNoWatermark(L, current_price) ==
    IF ~HasPosition(L)
    THEN [ledger |-> L, ret |-> FALSE]
    ELSE LET p == Pos(L)
         IN  IF p.direction = "LONG"
             THEN [ledger |-> [L EXCEPT !.position =
                       << [p EXCEPT !.highest_price = current_price,
                                    !.trailing_stop_price =
                                        MulDiv(current_price,
                                               RateDen - TrailingStopRatio,
                                               RateDen)] >>],
                   ret |-> TRUE]
             ELSE [ledger |-> [L EXCEPT !.position =
                       << [p EXCEPT !.lowest_price = current_price,
                                    !.trailing_stop_price =
                                        MulDiv(current_price,
                                               RateDen + TrailingStopRatio,
                                               RateDen)] >>],
                   ret |-> TRUE]

\* update_trailing_stop(current_price): the position after the call and
\* whether it changed
UpdateTrailingStop(L, current_price) ==
    IF ~HasPosition(L)
    THEN [ledger |-> L, ret |-> FALSE]
    ELSE LET p == Pos(L)
         IN  IF p.direction = "LONG"
             THEN IF current_price > p.highest_price
                  THEN [ledger |-> [L EXCEPT !.position =
                            << [p EXCEPT !.highest_price = current_price,
                                         !.trailing_stop_price =
                                             MulDiv(current_price,
                                                    RateDen - TrailingStopRatio,
                                                    RateDen)] >>],
                        ret |-> TRUE]
                  ELSE [ledger |-> L, ret |-> FALSE]
             ELSE IF current_price < p.lowest_price
                  THEN [ledger |-> [L EXCEPT !.position =
                            << [p EXCEPT !.lowest_price = current_price,
                                         !.trailing_stop_price =
                                             MulDiv(current_price,
                                                    RateDen + TrailingStopRatio,
                                                    RateDen)] >>],
                        ret |-> TRUE]
                  ELSE [ledger |-> L, ret |-> FALSE]

-----------------------------------------------------------------------------
(* The state machine: one action per ledger call, taken as a whole *)

\* the two threads that reach the ledger: a background worker (the position
\* monitor's loop or the scheduler's job) and the request path
Threads == {"worker", "request"}

Ledger == [balance |-> balance, position |-> position, trades |-> trades]

\* the ledger variables take the value L
Becomes(L) ==
    /\ balance'  = L.balance
    /\ position' = L.position
    /\ trades'   = L.trades

NoLocals == [direction |-> "", price |-> 0, reason |-> "", cont |-> "",
             exit_quote |-> << >>, entry_quote |-> << >>, exit_info |-> << >>]

\* the clock when the program starts
StartOfTime == 1

\* PositionMonitor.__init__: not running, nothing counted, no analysis yet
\* (last_analysis_time = {}: None for every symbol)
NewMonitor ==
    [running            |-> FALSE,
     check_count        |-> 0,
     signal_count       |-> 0,
     last_analysis_time |-> [s \in {NormalizeSymbol(r) : r \in RawSymbols} |-> None]]

\* no tick has run yet
NoTick == [price |-> None, signals |-> << >>, acts |-> << >>, calls |-> << >>,
           answer |-> << >>, raised |-> FALSE]

Init ==
    /\ initial_balance \in {b * Unit : b \in InitialBalances}
    /\ balance = initial_balance
    /\ position = NoPosition
    /\ trades = << >>
    /\ lastCall = [op |-> "__init__", ret |-> TRUE, log |-> ""]
    /\ pc = [t \in Threads |-> "idle"]
    /\ loc = [t \in Threads |-> NoLocals]
    /\ monitor = NewMonitor
    /\ now = StartOfTime
    /\ loops = << >>
    /\ lastTick = NoTick
    /\ signal_history = NoSignalHistory
    /\ emitted = << >>

\* enter_position(...) with force_flip left at its default (the decision
\* path, master_agent._execute_trading_decision)
Enter(raw_symbol, direction, entry_price, leverage, target_price, stop_loss) ==
    /\ Len(trades) < MaxTrades
    /\ \E r \in {EnterPosition(Ledger, raw_symbol, direction, entry_price, leverage,
                              target_price, stop_loss, FALSE)} :
           /\ Becomes(r.ledger)
           /\ lastCall' = [op |-> "enter_position", ret |-> r.ret, log |-> r.log]
    /\ UNCHANGED <<monitorVars, initial_balance, signalVars, pc, loc>>

\* POST /position/flip/{symbol}: enter_position(..., force_flip=True) at the
\* current price, without target and stop
ManualPositionFlip(raw_symbol, direction, leverage, current_price) ==
    /\ Len(trades) < MaxTrades
    /\ \E r \in {EnterPosition(Ledger, raw_symbol, direction, current_price, leverage,
                              None, None, TRUE)} :
           /\ Becomes(r.ledger)
           /\ lastCall' = [op |-> "manual_position_flip", ret |-> r.ret, log |-> r.log]
    /\ UNCHANGED <<monitorVars, initial_balance, signalVars, pc, loc>>

\* POST /position/exit: exit_position(current_price, reason) on the open
\* position (HTTP 400 without one)
ManualPositionExit(current_price) ==
    /\ Len(trades) <= MaxTrades
    /\ IF ~HasPosition(Ledger)
       THEN /\ UNCHANGED ledgerVars
            /\ lastCall' = [op |-> "manual_position_exit", ret |-> FALSE, log |-> "no position"]
       ELSE \E r \in {ExitPosition(Ledger, current_price, "Manual Exit", FullRatio)} :
                /\ Becomes(r.ledger)
                /\ lastCall' = [op |-> "manual_position_exit", ret |-> r.ret # << >>,
                                log |-> "exited"]
    /\ UNCHANGED <<monitorVars, initial_balance, signalVars, pc, loc>>

\* execute_partial_take_profit(current_price)
ExecutePartialTakeProfit(current_price) ==
    /\ Len(trades) < MaxTrades
    /\ HasPosition(Ledger) =>
          Halvable(Pos(Ledger).position_size) /\ Halvable(Pos(Ledger).invested_amount)
    /\ \E r \in {IF ~HasPosition(Ledger)
                THEN [ledger |-> Ledger, ret |-> << >>]
                ELSE ExitPosition(Ledger, current_price, "Partial Take Profit",
                                  PartialTakeProfitRatio)} :
           /\ Becomes(r.ledger)
           /\ lastCall' = [op |-> "execute_partial_take_profit", ret |-> r.ret # << >>,
                           log |-> IF r.ret # << >> THEN "partial exit" ELSE "no position"]
    /\ UNCHANGED <<monitorVars, initial_balance, signalVars, pc, loc>>

\* update_trailing_stop(current_price), as the monitor calls it each tick
TrailingStopUpdate(current_price) ==
    /\ \E r \in {UpdateTrailingStop(Ledger, current_price)} :
           /\ Becomes(r.ledger)
           /\ lastCall' = [op |-> "update_trailing_stop", ret |-> r.ret,
                           log |-> IF r.ret THEN "ratcheted" ELSE "kept"]
    /\ UNCHANGED <<monitorVars, initial_balance, signalVars, pc, loc>>

\* a reset that overwrites balance and position without closing first
ResetPortfolioDropsPosition(current_price) ==
    /\ balance' = initial_balance
    /\ position' = NoPosition
    /\ trades' = trades
    /\ lastCall' = [op |-> "reset_portfolio", ret |-> TRUE,
                    log |-> IF position # NoPosition THEN "closed and reset" ELSE "reset"]
    /\ UNCHANGED <<monitorVars, initial_balance, signalVars, pc, loc>>

\* POST /portfolio/reset: force-close at the current price (the entry price
\* when the oracle has none), then restore the initial balance
ResetPortfolio(current_price) ==
    /\ \E r \in {IF HasPosition(Ledger)
                  THEN ExitPosition(Ledger,
                                    IF current_price = None
                                    THEN Pos(Ledger).entry_price ELSE current_price,
                                    "Portfolio Reset", FullRatio)
                  ELSE [ledger |-> Ledger, ret |-> << >>]} :
           /\ balance' = initial_balance
           /\ position' = NoPosition
           /\ trades' = r.ledger.trades
           /\ lastCall' = [op |-> "reset_portfolio", ret |-> TRUE,
                           log |-> IF r.ret # << >> THEN "closed and reset" ELSE "reset"]
    /\ UNCHANGED <<monitorVars, initial_balance, signalVars, pc, loc>>

Next ==
    \/ \E s \in RawSymbols, d \in Directions, p \in EntryPrices, l \in Leverages,
          ts \in TargetStops : Enter(s, d, p, l, ts[1], ts[2])
    \/ \E s \in RawSymbols, d \in Directions, l \in Leverages, p \in EntryPrices :
          ManualPositionFlip(s, d, l, p)
    \/ \E p \in Prices : ManualPositionExit(p)
    \/ \E p \in Prices : ExecutePartialTakeProfit(p)
    \/ \E p \in Prices : TrailingStopUpdate(p)
    \/ \E p \in Prices \cup {None} : ResetPortfolio(p)

Spec == Init /\ [][Next]_vars

-----------------------------------------------------------------------------
(* Two threads on the ledger.  virtual_portfolio.py takes no lock, so a
   thread can be preempted between any two statements of enter_position
   and exit_position.  Each action below is one group of statements of one
   thread; pc[t] names the first line of the group thread t runs next. *)

\* the symbol and sizing the racing calls use
RaceSymbol == "SOL/USDT"

RaceLeverage == 2

SetPc(t, label) == pc' = [pc EXCEPT ![t] = label]

\* thread t returns from enter_position with result ret
EnterReturn(t, ret, log) ==
    /\ SetPc(t, "idle")
    /\ loc' = [loc EXCEPT ![t] = NoLocals]
    /\ lastCall' = [op |-> "enter_position", ret |-> ret, log |-> log]

\* thread t returns from exit_position with result info (<<>> for None):
\* to its caller, or into enter_position when that made the call
ExitReturn(t, info) ==
    CASE loc[t].cont = "" ->
            /\ SetPc(t, "idle")
            /\ loc' = [loc EXCEPT ![t] = NoLocals]
            /\ lastCall' = [op |-> "exit_position", ret |-> info # << >>,
                            log |-> IF info # << >> THEN "exited" ELSE "exit failed"]
      [] loc[t].cont = "flip" /\ info = << >> ->
            EnterReturn(t, FALSE, "flip exit failed")
      [] OTHER ->
            /\ SetPc(t, "enter_99")
            /\ loc' = [loc EXCEPT ![t].exit_info = info]
            /\ UNCHANGED lastCall

\* a caller that saw an open position calls exit_position(price, reason):
\* _handle_trailing_stop on the worker, manual_position_exit on the request path
BeginExit(t, price) ==
    /\ pc[t] = "idle"
    /\ Len(trades) <= MaxTrades
    /\ position # NoPosition
    /\ SetPc(t, "exit_194")
    /\ loc' = [loc EXCEPT ![t] = [NoLocals EXCEPT
                   !.price = price,
                   !.reason = IF t = "worker" THEN "Trailing Stop" ELSE "Manual Exit"]]
    /\ UNCHANGED <<monitorVars, initial_balance, signalVars, ledgerVars, lastCall>>

\* line 194: if not self.current_position: return None
Exit194(t) ==
    /\ pc[t] = "exit_194"
    /\ IF position = NoPosition
       THEN ExitReturn(t, << >>)
       ELSE SetPc(t, "exit_199") /\ UNCHANGED <<loc, lastCall>>
    /\ UNCHANGED <<monitorVars, initial_balance, signalVars, ledgerVars>>

\* lines 199-214: price, size, value, fee and profit of the exit, read from
\* the position (a cleared position raises, the except clause returns None)
Exit199(t) ==
    /\ pc[t] = "exit_199"
    /\ IF position = NoPosition
       THEN ExitReturn(t, << >>)
       ELSE /\ SetPc(t, "exit_217")
            /\ loc' = [loc EXCEPT ![t].exit_quote =
                          << ExitQuote(position[1], loc[t].price, FullRatio) >>]
            /\ UNCHANGED lastCall
    /\ UNCHANGED <<monitorVars, initial_balance, signalVars, ledgerVars>>

\* line 217: self.current_balance += final_position_value
Exit217(t) ==
    /\ pc[t] = "exit_217"
    /\ balance' = balance + loc[t].exit_quote[1].final_position_value
    /\ SetPc(t, "exit_220")
    /\ UNCHANGED <<monitorVars, initial_balance, signalVars, position, trades, lastCall, loc>>

\* lines 220-251: exit_info and the EXIT row, built from the position as it
\* is now and from the locals
Exit220(t) ==
    /\ pc[t] = "exit_220"
    /\ IF position = NoPosition
       THEN ExitReturn(t, << >>) /\ UNCHANGED trades
       ELSE /\ trades' = Append(trades, ExitTrade(position[1], loc[t].exit_quote[1],
                                                  loc[t].reason))
            /\ loc' = [loc EXCEPT ![t].exit_info =
                          << ExitInfo(position[1], loc[t].exit_quote[1],
                                      loc[t].reason, FullRatio) >>]
            /\ SetPc(t, "exit_253")
            /\ UNCHANGED lastCall
    /\ UNCHANGED <<monitorVars, initial_balance, signalVars, balance, position>>

\* lines 253-269: the log line reads the position, then
\* self.current_position = None; return exit_info
Exit253(t) ==
    /\ pc[t] = "exit_253"
    /\ IF position = NoPosition
       THEN ExitReturn(t, << >>) /\ UNCHANGED position
       ELSE position' = NoPosition /\ ExitReturn(t, loc[t].exit_info)
    /\ UNCHANGED <<monitorVars, initial_balance, signalVars, balance, trades>>

\* a caller calls enter_position(symbol, direction, entry_price, leverage)
BeginEnter(t, direction, entry_price) ==
    /\ pc[t] = "idle"
    /\ Len(trades) < MaxTrades
    /\ SetPc(t, "enter_82")
    /\ loc' = [loc EXCEPT ![t] = [NoLocals EXCEPT !.direction = direction,
                                                  !.price = entry_price]]
    /\ UNCHANGED <<monitorVars, initial_balance, signalVars, ledgerVars, lastCall>>

\* lines 82-96: an existing position is kept (same side), flipped (other
\* side) or switched (other symbol); the last two call exit_position
Enter82(t) ==
    /\ pc[t] = "enter_82"
    /\ IF position = NoPosition
       THEN SetPc(t, "enter_99") /\ UNCHANGED <<loc, lastCall>>
       ELSE IF position[1].symbol = RaceSymbol /\ position[1].direction = loc[t].direction
            THEN EnterReturn(t, FALSE, "same position exists")
            ELSE /\ SetPc(t, "exit_194")
                 /\ loc' = [loc EXCEPT
                       ![t].cont   = IF position[1].symbol = RaceSymbol
                                     THEN "flip" ELSE "switch",
                       ![t].reason = IF position[1].symbol = RaceSymbol
                                     THEN "Position Flip" ELSE "Position Switch"]
                 /\ UNCHANGED lastCall
    /\ UNCHANGED <<monitorVars, initial_balance, signalVars, ledgerVars>>

\* lines 99-100: if not self.can_enter_position(...): return False
Enter99(t) ==
    /\ pc[t] = "enter_99"
    /\ IF ~CanEnterPosition(Ledger)
       THEN EnterReturn(t, FALSE, "insufficient balance")
       ELSE SetPc(t, "enter_103") /\ UNCHANGED <<loc, lastCall>>
    /\ UNCHANGED <<monitorVars, initial_balance, signalVars, ledgerVars>>

\* lines 103-113: fill price and sizing, from the balance as it is now
Enter103(t) ==
    /\ pc[t] = "enter_103"
    /\ loc' = [loc EXCEPT ![t].entry_quote =
                  << EntryQuote(balance, loc[t].direction, loc[t].price, RaceLeverage) >>]
    /\ SetPc(t, "enter_116")
    /\ UNCHANGED <<monitorVars, initial_balance, signalVars, ledgerVars, lastCall>>

\* lines 116-133: self.current_position = {...}
Enter116(t) ==
    /\ pc[t] = "enter_116"
    /\ position' = << NewPosition(loc[t].entry_quote[1], RaceSymbol, loc[t].direction,
                                  loc[t].price, RaceLeverage, None, None) >>
    /\ SetPc(t, "enter_136")
    /\ UNCHANGED <<monitorVars, initial_balance, signalVars, balance, trades, lastCall, loc>>

\* line 136: self.current_balance -= available_balance
Enter136(t) ==
    /\ pc[t] = "enter_136"
    /\ balance' = balance - loc[t].entry_quote[1].available_balance
    /\ SetPc(t, "enter_139")
    /\ UNCHANGED <<monitorVars, initial_balance, signalVars, position, trades, lastCall, loc>>

\* lines 139-155: the ENTER row; return True
Enter139(t) ==
    /\ pc[t] = "enter_139"
    /\ trades' = Append(trades, EnterTrade(loc[t].entry_quote[1], RaceSymbol,
                                           loc[t].direction, RaceLeverage, None, None))
    /\ EnterReturn(t, TRUE, "entered")
    /\ UNCHANGED <<monitorVars, initial_balance, signalVars, balance, position>>

NextRace ==
    \E t \in Threads :
        \/ \E p \in EntryPrices : BeginExit(t, p)
        \/ Exit194(t)
        \/ Exit199(t)
        \/ Exit217(t)
        \/ Exit220(t)
        \/ Exit253(t)
        \/ \E d \in Directions, p \in EntryPrices : BeginEnter(t, d, p)
        \/ Enter82(t)
        \/ Enter99(t)
        \/ Enter103(t)
        \/ Enter116(t)
        \/ Enter136(t)
        \/ Enter139(t)

SpecRace == Init /\ [][NextRace]_vars

-----------------------------------------------------------------------------
(* The position monitor, position_monitor.py.  A tick is one pass of the
   body of _monitoring_loop; the handlers it calls are operators on the
   record T of what the tick has done so far:
     ledger              the ledger as the tick has left it
     last_analysis_time  the cooldown map
     acts                what each dispatched tag led to, in order
     calls               the handlers that called the Decision Source
     inexact             a halving the fixed-point numbers cannot carry *)

\* check_interval and analysis_cooldown, in seconds
CheckInterval == 10

AnalysisCooldown == 300

\* the confidence under which an answer is not trusted (0.6), in percent
MinConfidence == 60

\* the profit at which PARTIAL_TAKE_PROFIT fires (10.0 percent)
PartialProfitPercent == 10

Recommendations == {"SELL", "HOLD", "BUY"}

Confidences == {59, 60}

\* what the Decision Source does when asked: it answers, or it is
\* unavailable, returns an error, or raises
Failures == {"unavailable", "error", "raises"}

Outcomes ==
    {[kind |-> "answer", recommendation |-> r, confidence |-> c] :
        r \in Recommendations, c \in Confidences}
    \cup {[kind |-> k, recommendation |-> "", confidence |-> 0] : k \in Failures}

\* seconds from one tick to the next one followed here: the sleep, the
\* last second inside a cooldown, a whole cooldown (a slow analysis, or
\* ticks in between that change nothing)
Delays == {CheckInterval, AnalysisCooldown - 1, AnalysisCooldown}

\* check_position_signals with the profit measured on the price alone,
\* without the leverage
CheckPositionSignalsUnleveraged(L, current_price) ==
    IF ~HasPosition(L) THEN << >>
    ELSE LET p == Pos(L)
             m == CalculatePositionMetrics([p EXCEPT !.leverage = 1], current_price,
                                           p.position_size)
             target   == /\ p.target_price # None
                         /\ \/ p.direction = "LONG" /\ current_price >= p.target_price
                            \/ p.direction = "SHORT" /\ current_price <= p.target_price
             trailing == /\ p.trailing_stop_price # None
                         /\ \/ p.direction = "LONG" /\ current_price <= p.trailing_stop_price
                            \/ p.direction = "SHORT" /\ current_price >= p.trailing_stop_price
             partial  == /\ MulDiv(m.pnl, 100, m.invested_amount) >= PartialProfitPercent
                         /\ ~p.partial_profit_taken
         IN  (IF target THEN << "TARGET_REACHED" >> ELSE << >>)
             \o (IF trailing THEN << "TRAILING_STOP" >> ELSE << >>)
             \o (IF partial THEN << "PARTIAL_TAKE_PROFIT" >> ELSE << >>)

\* check_position_signals(current_price): the tags, in the order of the code
CheckPositionSignals(L, current_price) ==
    IF ~HasPosition(L) THEN << >>
    ELSE LET p == Pos(L)
             m == CalculatePositionMetrics(p, current_price, p.position_size)
             target   == /\ p.target_price # None
                         /\ \/ p.direction = "LONG" /\ current_price >= p.target_price
                            \/ p.direction = "SHORT" /\ current_price <= p.target_price
             trailing == /\ p.trailing_stop_price # None
                         /\ \/ p.direction = "LONG" /\ current_price <= p.trailing_stop_price
                            \/ p.direction = "SHORT" /\ current_price >= p.trailing_stop_price
             partial  == /\ MulDiv(m.pnl, 100, m.invested_amount) >= PartialProfitPercent
                         /\ ~p.partial_profit_taken
         IN  (IF target THEN << "TARGET_REACHED" >> ELSE << >>)
             \o (IF trailing THEN << "TRAILING_STOP" >> ELSE << >>)
             \o (IF partial THEN << "PARTIAL_TAKE_PROFIT" >> ELSE << >>)

\* execute_partial_take_profit(current_price) on ledger L
PartialTakeProfit(L, current_price) ==
    IF ~HasPosition(L)
    THEN [ledger |-> L, ret |-> << >>]
    ELSE ExitPosition(L, current_price, "Partial Take Profit", PartialTakeProfitRatio)

\* the position of L cannot be halved exactly
Inexact(L) ==
    HasPosition(L) /\ ~(Halvable(Pos(L).position_size) /\ Halvable(Pos(L).invested_amount))

\* _can_request_analysis that lets one second short of the cooldown pass
CanRequestAnalysisEarly(last_analysis_time, symbol, time) ==
    \/ last_analysis_time[symbol] = None
    \/ time - last_analysis_time[symbol] >= AnalysisCooldown - 1

\* _can_request_analysis(symbol, 'TARGET_REACHED') at the given time
CanRequestAnalysis(last_analysis_time, symbol, time) ==
    \/ last_analysis_time[symbol] = None
    \/ time - last_analysis_time[symbol] >= AnalysisCooldown

\* _request_continue_analysis that hands an error result on to the caller
RequestContinueAnalysisErrorPassed(outcome) ==
    IF outcome.kind \in {"answer", "error"} THEN << outcome >> ELSE << >>

\* _request_continue_analysis: <<answer>>, or << >> (None) when the Decision
\* Source is unavailable, answers with an error or raises
RequestContinueAnalysis(outcome) ==
    IF outcome.kind = "answer" THEN << outcome >> ELSE << >>

\* the tick record after a handler has left ledger L, done act, and
\* (asked = TRUE) called the Decision Source
Handled(T, L, act, tag, asked, inexact) ==
    [T EXCEPT !.ledger  = L,
              !.acts    = Append(@, act),
              !.calls   = IF asked THEN Append(@, tag) ELSE @,
              !.inexact = @ \/ inexact]

\* _handle_target_reached that also distrusts a confidence of exactly 0.6
HandleTargetReachedStrict(T, current_price, outcome, time) ==
    LET symbol == Pos(T.ledger).symbol
    IN  IF ~CanRequestAnalysis(T.last_analysis_time, symbol, time)
        THEN Handled(T, T.ledger, "cooling", "TARGET_REACHED", FALSE, FALSE)
        ELSE Only({
               [ (IF a # << >> /\ (a[1].recommendation = "SELL"
                                   \/ a[1].confidence <= MinConfidence)
                  THEN Handled(T, ExitPosition(T.ledger, current_price,
                                               "Target Reached - Exit Signal",
                                               FullRatio).ledger,
                               "full exit", "TARGET_REACHED", TRUE, FALSE)
                  ELSE IF a = << >> \/ a[1].recommendation = "HOLD"
                       THEN Handled(T, PartialTakeProfit(T.ledger, current_price).ledger,
                                    "partial exit", "TARGET_REACHED", TRUE,
                                    Inexact(T.ledger))
                       ELSE Handled(T, T.ledger, "hold", "TARGET_REACHED", TRUE, FALSE))
                 EXCEPT !.last_analysis_time[symbol] = time ]
               : a \in {RequestContinueAnalysis(outcome)} })

\* _handle_target_reached(current_price): skip while cooling; otherwise ask
\* the Decision Source once, exit in full on SELL or low confidence, take
\* the partial profit on HOLD or when there is no answer, do nothing on
\* BUY; then record the time of the analysis
HandleTargetReached(T, current_price, outcome, time) ==
    LET symbol == Pos(T.ledger).symbol
    IN  IF ~CanRequestAnalysis(T.last_analysis_time, symbol, time)
        THEN Handled(T, T.ledger, "cooling", "TARGET_REACHED", FALSE, FALSE)
        ELSE Only({
               [ (IF a # << >> /\ (a[1].recommendation = "SELL"
                                   \/ a[1].confidence < MinConfidence)
                  THEN Handled(T, ExitPosition(T.ledger, current_price,
                                               "Target Reached - Exit Signal",
                                               FullRatio).ledger,
                               "full exit", "TARGET_REACHED", TRUE, FALSE)
                  ELSE IF a = << >> \/ a[1].recommendation = "HOLD"
                       THEN Handled(T, PartialTakeProfit(T.ledger, current_price).ledger,
                                    "partial exit", "TARGET_REACHED", TRUE,
                                    Inexact(T.ledger))
                       ELSE Handled(T, T.ledger, "hold", "TARGET_REACHED", TRUE, FALSE))
                 EXCEPT !.last_analysis_time[symbol] = time ]
               : a \in {RequestContinueAnalysis(outcome)} })

\* a trailing stop that only takes the partial profit
HandleTrailingStopPartial(T, current_price) ==
    IF ~HasPosition(T.ledger)
    THEN Handled(T, T.ledger, "no position", "TRAILING_STOP", FALSE, FALSE)
    ELSE Handled(T, PartialTakeProfit(T.ledger, current_price).ledger,
                 "partial exit", "TRAILING_STOP", FALSE, Inexact(T.ledger))

\* _handle_trailing_stop(current_price): full exit, nobody is asked
HandleTrailingStop(T, current_price) ==
    IF ~HasPosition(T.ledger)
    THEN Handled(T, T.ledger, "no position", "TRAILING_STOP", FALSE, FALSE)
    ELSE Handled(T, ExitPosition(T.ledger, current_price, "Trailing Stop",
                                 FullRatio).ledger,
                 "full exit", "TRAILING_STOP", FALSE, FALSE)

\* _handle_partial_take_profit(current_price): once per position
HandlePartialTakeProfit(T, current_price) ==
    IF ~HasPosition(T.ledger) \/ Pos(T.ledger).partial_profit_taken
    THEN Handled(T, T.ledger, "already taken", "PARTIAL_TAKE_PROFIT", FALSE, FALSE)
    ELSE Handled(T, PartialTakeProfit(T.ledger, current_price).ledger,
                 "partial exit", "PARTIAL_TAKE_PROFIT", FALSE, Inexact(T.ledger))

\* a handler that closes the position once the price is at or beyond its
\* stop price on the losing side
HandlePositionSignalStopsOut(T, signal, current_price, outcome, time) ==
    IF ~HasPosition(T.ledger)
    THEN Handled(T, T.ledger, "no position", signal, FALSE, FALSE)
    ELSE IF /\ Pos(T.ledger).stop_loss # None
            /\ \/ Pos(T.ledger).direction = "LONG"
                  /\ current_price <= Pos(T.ledger).stop_loss
               \/ Pos(T.ledger).direction = "SHORT"
                  /\ current_price >= Pos(T.ledger).stop_loss
    THEN Handled(T, ExitPosition(T.ledger, current_price, "Stop Loss", FullRatio).ledger,
                 "full exit", signal, FALSE, FALSE)
    ELSE CASE signal = "TARGET_REACHED" ->
                 HandleTargetReached(T, current_price, outcome, time)
           [] signal = "TRAILING_STOP" ->
                 HandleTrailingStop(T, current_price)
           [] signal = "PARTIAL_TAKE_PROFIT" ->
                 HandlePartialTakeProfit(T, current_price)

\* _handle_position_signal(signal, current_price)
HandlePositionSignal(T, signal, current_price, outcome, time) ==
    IF ~HasPosition(T.ledger)
    THEN Handled(T, T.ledger, "no position", signal, FALSE, FALSE)
    ELSE CASE signal = "TARGET_REACHED" ->
                 HandleTargetReached(T, current_price, outcome, time)
           [] signal = "TRAILING_STOP" ->
                 HandleTrailingStop(T, current_price)
           [] signal = "PARTIAL_TAKE_PROFIT" ->
                 HandlePartialTakeProfit(T, current_price)

RECURSIVE HandleSignals(_, _, _, _, _)

\* a loop whose handlers go on with the position found before the tag
\* ahead of them was handled
HandleSignalsStale(T, signals, current_price, outcome, time) ==
    IF signals = << >> THEN T
    ELSE Only({ HandleSignals([t EXCEPT !.ledger.position = T.ledger.position],
                              Tail(signals), current_price, outcome, time)
                : t \in {HandlePositionSignal(T, Head(signals), current_price,
                                              outcome, time)} })

\* _check_position lines 102-103: the tags are handled one after the other
HandleSignals(T, signals, current_price, outcome, time) ==
    IF signals = << >> THEN T
    ELSE Only({ HandleSignals(t, Tail(signals), current_price, outcome, time)
                : t \in {HandlePositionSignal(T, Head(signals), current_price,
                                              outcome, time)} })

\* _check_position that goes on at the entry price when the oracle has no
\* price
CheckPositionAtEntryPrice(L, last_analysis_time, current_price, outcome, time) ==
    IF ~HasPosition(L)
    THEN [ledger |-> L, last_analysis_time |-> last_analysis_time,
          signals |-> << >>, acts |-> << >>, calls |-> << >>, inexact |-> FALSE]
    ELSE Only({ Only({ Only({ [signals |-> sig] @@
                              HandleSignals([ledger |-> l,
                                             last_analysis_time |-> last_analysis_time,
                                             acts |-> << >>, calls |-> << >>,
                                             inexact |-> FALSE],
                                            sig, price, outcome, time)
                              : sig \in {CheckPositionSignals(l, price)} })
                       : l \in {UpdateTrailingStop(L, price).ledger} })
                : price \in {IF current_price = None THEN Pos(L).entry_price
                             ELSE current_price} })

\* _check_position: fetch the price (None: give up), ratchet the trailing
\* stop, collect the tags and handle them
CheckPosition(L, last_analysis_time, current_price, outcome, time) ==
    IF ~HasPosition(L) \/ current_price = None
    THEN [ledger |-> L, last_analysis_time |-> last_analysis_time,
          signals |-> << >>, acts |-> << >>, calls |-> << >>, inexact |-> FALSE]
    ELSE Only({ Only({ [signals |-> sig] @@
                       HandleSignals([ledger |-> l, last_analysis_time |-> last_analysis_time,
                                      acts |-> << >>, calls |-> << >>, inexact |-> FALSE],
                                     sig, current_price, outcome, time)
                       : sig \in {CheckPositionSignals(l, current_price)} })
                : l \in {UpdateTrailingStop(L, current_price).ledger} })

\* start_monitoring() without the test of the flag
StartMonitoringAgain ==
    /\ Len(loops) < MaxLoops
    /\ monitor' = [monitor EXCEPT !.running = TRUE]
    /\ loops' = Append(loops, "while")
    /\ lastCall' = [op |-> "start_monitoring", ret |-> ~monitor.running,
                    log |-> "started"]
    /\ UNCHANGED <<initial_balance, signalVars, ledgerVars, pc, loc, now, lastTick>>

\* start_monitoring(): refused while running; otherwise sets the flag and
\* spawns a thread that runs _monitoring_loop
StartMonitoring ==
    /\ IF monitor.running
       THEN /\ UNCHANGED <<monitor, loops>>
            /\ lastCall' = [op |-> "start_monitoring", ret |-> FALSE,
                            log |-> "already running"]
       ELSE /\ Len(loops) < MaxLoops
            /\ monitor' = [monitor EXCEPT !.running = TRUE]
            /\ loops' = Append(loops, "while")
            /\ lastCall' = [op |-> "start_monitoring", ret |-> TRUE, log |-> "started"]
    /\ UNCHANGED <<initial_balance, signalVars, ledgerVars, pc, loc, now, lastTick>>

\* stop_monitoring(): clears the flag; the thread is neither joined nor
\* killed. The log line tells whether the thread spawned last is alive; ret
\* records that the call returned (it returns nothing)
StopMonitoring ==
    /\ monitor' = [monitor EXCEPT !.running = FALSE]
    /\ lastCall' = [op |-> "stop_monitoring", ret |-> TRUE,
                    log |-> IF loops # << >> /\ loops[Len(loops)] # "done"
                            THEN "stop signalled" ELSE "stopped"]
    /\ UNCHANGED <<initial_balance, signalVars, ledgerVars, pc, loc, now, loops, lastTick>>

\* a loop that sleeps on while the flag is cleared instead of ending
LoopWhilePolls(i) ==
    /\ i \in DOMAIN loops
    /\ loops[i] = "while"
    /\ loops' = [loops EXCEPT ![i] = IF monitor.running THEN "tick" ELSE "sleep"]
    /\ UNCHANGED <<initial_balance, signalVars, ledgerVars, lastCall, pc, loc, monitor, now, lastTick>>

\* _monitoring_loop line 51, thread i: the flag is tested; the loop goes on
\* to the body of the tick or ends
LoopWhile(i) ==
    /\ i \in DOMAIN loops
    /\ loops[i] = "while"
    /\ loops' = [loops EXCEPT ![i] = IF monitor.running THEN "tick" ELSE "done"]
    /\ UNCHANGED <<initial_balance, signalVars, ledgerVars, lastCall, pc, loc, monitor, now, lastTick>>

\* a loop in which an exception of the tick ends the thread
LoopTickEscapes(i, raised) ==
    /\ i \in DOMAIN loops
    /\ loops[i] = "tick"
    /\ raised => position # NoPosition
    /\ monitor' = [monitor EXCEPT
                      !.check_count = IF @ < MaxTicks THEN @ + 1 ELSE @]
    /\ lastTick' = [NoTick EXCEPT !.raised = raised]
    /\ loops' = [loops EXCEPT ![i] = IF raised THEN "done" ELSE "sleep"]
    /\ UNCHANGED <<initial_balance, signalVars, ledgerVars, lastCall, pc, loc, now>>

\* _monitoring_loop lines 52-65, thread i: the body of one tick, followed
\* for its control flow only. The tick is counted (up to MaxTicks; the
\* counter of the code has no bound); with a position open the price
\* fetch finds no price, or something under _check_position raises
\* (raised) and the except clauses of lines 105 and 64 catch it. Either
\* way the ledger is as before and the thread goes on to the sleep.
LoopTick(i, raised) ==
    /\ i \in DOMAIN loops
    /\ loops[i] = "tick"
    /\ raised => position # NoPosition
    /\ monitor' = [monitor EXCEPT
                      !.check_count = IF @ < MaxTicks THEN @ + 1 ELSE @]
    /\ lastTick' = [NoTick EXCEPT !.raised = raised]
    /\ loops' = [loops EXCEPT ![i] = "sleep"]
    /\ UNCHANGED <<initial_balance, signalVars, ledgerVars, lastCall, pc, loc, now>>

\* _monitoring_loop line 67, thread i: the sleep ends
LoopSleep(i) ==
    /\ i \in DOMAIN loops
    /\ loops[i] = "sleep"
    /\ loops' = [loops EXCEPT ![i] = "while"]
    /\ UNCHANGED <<initial_balance, signalVars, ledgerVars, lastCall, pc, loc, monitor, now, lastTick>>

\* one pass of the loop of the running monitor, lines 51-67: the tick is
\* counted, an open position is checked at the price the oracle gives
\* (None: no price), and the thread sleeps until the next pass
MonitorTick(current_price, outcome, delay) ==
    /\ monitor.running
    /\ loops = << "while" >>
    /\ monitor.check_count < MaxTicks
    /\ Len(trades) <= MaxTrades
    /\ \E r \in {CheckPosition(Ledger, monitor.last_analysis_time, current_price,
                                outcome, now + delay)} :
          /\ ~r.inexact
          /\ Becomes(r.ledger)
          /\ monitor' = [monitor EXCEPT
                            !.check_count = @ + 1,
                            !.signal_count = IF r.signals # << >> THEN @ + 1 ELSE @,
                            !.last_analysis_time = r.last_analysis_time]
          /\ lastTick' = [price   |-> current_price,
                          signals |-> r.signals,
                          acts    |-> r.acts,
                          calls   |-> r.calls,
                          answer  |-> IF r.calls # << >> THEN << outcome >> ELSE << >>,
                          raised  |-> FALSE]
    /\ now' = now + delay
    /\ UNCHANGED <<initial_balance, signalVars, lastCall, pc, loc, loops>>

\* targets the decision path sets on the positions the monitor watches
MonitorTargets == {None, 3000}

\* the program once startup has called start_monitoring() (main.py:994) on
\* a fresh ledger with the default balance
InitMonitor ==
    /\ initial_balance = DefaultInitialBalance * Unit
    /\ balance = initial_balance
    /\ position = NoPosition
    /\ trades = << >>
    /\ lastCall = [op |-> "start_monitoring", ret |-> TRUE, log |-> "started"]
    /\ pc = [t \in Threads |-> "idle"]
    /\ loc = [t \in Threads |-> NoLocals]
    /\ monitor = [NewMonitor EXCEPT !.running = TRUE]
    /\ now = StartOfTime
    /\ loops = << "while" >>
    /\ lastTick = NoTick
    /\ signal_history = NoSignalHistory
    /\ emitted = << >>

\* the decision path opens a position with a target on the empty ledger
\* (master_agent._execute_trading_decision, the fresh entry)
FreshEntry(raw_symbol, direction, entry_price, target_price) ==
    /\ position = NoPosition
    /\ Enter(raw_symbol, direction, entry_price, 1, target_price, None)

NextMonitor ==
    \/ \E s \in RawSymbols, d \in Directions, p \in EntryPrices, tp \in MonitorTargets :
          FreshEntry(s, d, p, tp)
    \/ \E p \in Prices \cup {None}, o \in Outcomes, d \in Delays : MonitorTick(p, o, d)

SpecMonitor == InitMonitor /\ [][NextMonitor]_vars

\* get_position_summary(): {'has_position': False} without a position;
\* otherwise the position valued at the oracle's price, or at its entry
\* price when the oracle has none
GetPositionSummary(L, oracle_price) ==
    IF ~HasPosition(L)
    THEN [has_position |-> FALSE]
    ELSE Only({ Only({ [has_position         |-> TRUE,
                        symbol               |-> Pos(L).symbol,
                        direction            |-> Pos(L).direction,
                        entry_price          |-> Pos(L).entry_price,
                        current_price        |-> current_price,
                        leverage             |-> Pos(L).leverage,
                        position_size        |-> Pos(L).position_size,
                        invested_amount      |-> Pos(L).invested_amount,
                        position_value       |-> m.position_value,
                        unrealized_pnl       |-> m.pnl,
                        target_price         |-> Pos(L).target_price,
                        trailing_stop_price  |-> Pos(L).trailing_stop_price,
                        partial_profit_taken |-> Pos(L).partial_profit_taken,
                        total_fees_paid      |-> Pos(L).total_fees_paid]
                       : m \in {CalculatePositionMetrics(Pos(L), current_price,
                                                         Pos(L).position_size)} })
                : current_price \in {IF oracle_price = None THEN Pos(L).entry_price
                                     ELSE oracle_price} })

\* get_portfolio_status(): the balance, plus the value of the position when
\* there is one and the oracle has a price
GetPortfolioStatus(L, initial, oracle_price) ==
    Only({ [initial_balance  |-> initial,
            current_balance  |-> L.balance,
            total_value      |-> L.balance + m.position_value,
            current_position |-> L.position,
            unrealized_pnl   |-> m.pnl,
            has_position     |-> HasPosition(L)]
           : m \in {IF HasPosition(L) /\ oracle_price # None
                    THEN CalculatePositionMetrics(Pos(L), oracle_price,
                                                  Pos(L).position_size)
                    ELSE [position_value |-> 0, pnl |-> 0]} })

\* prices at which the reads are made: either side of the target, of the
\* trailing stops the watermarks below give, and of the 10% profit
ReadPrices == {1798, 1799, 1937, 1938, 2202, 2203, 2940, 2941, 2999, 3000, 3001}

\* prices the watermarks are ratcheted to and partial profits taken at
RatchetPrices == {1900, 3000}

\* the reads of the ledger: check_position_signals, get_position_summary,
\* get_portfolio_status
ReadOps == {"check_position_signals", "get_position_summary", "get_portfolio_status"}

\* a read that ratchets the trailing stop before it collects the tags
CheckSignalsCallRatchets(current_price) ==
    /\ \E r \in {UpdateTrailingStop(Ledger, current_price).ledger} :
          /\ Becomes(r)
          /\ lastCall' = [op |-> "check_position_signals", price |-> current_price,
                          ret |-> CheckPositionSignals(r, current_price), log |-> ""]
    /\ UNCHANGED <<monitorVars, initial_balance, signalVars, pc, loc>>

\* check_position_signals(current_price): nothing is assigned
CheckSignalsCall(current_price) ==
    /\ lastCall' = [op |-> "check_position_signals", price |-> current_price,
                    ret |-> CheckPositionSignals(Ledger, current_price), log |-> ""]
    /\ UNCHANGED <<ledgerVars, monitorVars, initial_balance, signalVars, pc, loc>>

\* GET /position/summary: get_position_summary(), the oracle giving
\* oracle_price (None: no price); nothing is assigned
PositionSummaryCall(oracle_price) ==
    /\ lastCall' = [op |-> "get_position_summary", price |-> oracle_price,
                    ret |-> GetPositionSummary(Ledger, oracle_price), log |-> ""]
    /\ UNCHANGED <<ledgerVars, monitorVars, initial_balance, signalVars, pc, loc>>

\* GET /portfolio/status: get_portfolio_status(); nothing is assigned
PortfolioStatusCall(oracle_price) ==
    /\ lastCall' = [op |-> "get_portfolio_status", price |-> oracle_price,
                    ret |-> GetPortfolioStatus(Ledger, initial_balance, oracle_price),
                    log |-> ""]
    /\ UNCHANGED <<ledgerVars, monitorVars, initial_balance, signalVars, pc, loc>>

\* an entry on the empty ledger, with or without target
ReadEntry(direction, leverage, target_price) ==
    /\ position = NoPosition
    /\ Enter("SOL/USDT", direction, 2000, leverage, target_price, None)

\* the ledger read between the calls that change it
NextRead ==
    \/ \E d \in Directions, l \in Leverages, tp \in MonitorTargets : ReadEntry(d, l, tp)
    \/ \E p \in RatchetPrices : TrailingStopUpdate(p)
    \/ \E p \in RatchetPrices : ExecutePartialTakeProfit(p)
    \/ \E p \in ReadPrices : CheckSignalsCall(p)
    \/ \E p \in ReadPrices \cup {None} : PositionSummaryCall(p)
    \/ \E p \in ReadPrices \cup {None} : PortfolioStatusCall(p)

SpecRead == InitMonitor /\ [][NextRead]_vars

\* prices _apply_slippage is called with, in price units (cents)
MinFillPrice == 1000

MaxFillPrice == 1040

\* a ledger as constructed, about to call _apply_slippage(price, direction,
\* action): lastCall holds the arguments, ret is not there yet
InitSlippage ==
    /\ initial_balance = DefaultInitialBalance * Unit
    /\ balance = initial_balance
    /\ position = NoPosition
    /\ trades = << >>
    /\ lastCall \in [op : {"_apply_slippage"}, price : MinFillPrice .. MaxFillPrice,
                     direction : Directions, action : {"ENTER", "EXIT"},
                     ret : {None}]
    /\ pc = [t \in Threads |-> "idle"]
    /\ loc = [t \in Threads |-> NoLocals]
    /\ monitor = NewMonitor
    /\ now = StartOfTime
    /\ loops = << >>
    /\ lastTick = NoTick
    /\ signal_history = NoSignalHistory
    /\ emitted = << >>

\* the call returns
ApplySlippageCall ==
    /\ lastCall.op = "_apply_slippage"
    /\ lastCall.ret = None
    /\ lastCall' = [lastCall EXCEPT
                       !.ret = ApplySlippage(lastCall.price, lastCall.direction,
                                             lastCall.action)]
    /\ UNCHANGED <<initial_balance, signalVars, ledgerVars, pc, loc, monitorVars>>

SpecSlippage == InitSlippage /\ [][ApplySlippageCall]_vars

\* the monitor's threads, statement by statement, with the start and stop
\* requests (main.py:2088, 2104) and the decision path's fresh entries
NextLoop ==
    \/ StartMonitoring
    \/ StopMonitoring
    \/ \E i \in 1 .. MaxLoops : LoopWhile(i)
    \/ \E i \in 1 .. MaxLoops, raised \in BOOLEAN : LoopTick(i, raised)
    \/ \E i \in 1 .. MaxLoops : LoopSleep(i)
    \/ \E d \in Directions, tp \in MonitorTargets : FreshEntry("SOL/USDT", d, 2000, tp)

SpecLoop == Init /\ [][NextLoop]_vars

\* every thread the scheduler runs gets to take its next step: the flag
\* test, the body of a tick and the sleep all return
LoopFairness ==
    \A i \in 1 .. MaxLoops :
        /\ WF_vars(LoopWhile(i))
        /\ WF_vars(\E raised \in BOOLEAN : LoopTick(i, raised))
        /\ WF_vars(LoopSleep(i))

SpecLoopFair == SpecLoop /\ LoopFairness

-----------------------------------------------------------------------------
(* Properties *)

\* invested margin of the open position, 0 without one
Margin == IF position = NoPosition THEN 0 ELSE position[1].invested_amount

\* the rows the step appends to the trade log
NewRows == Len(trades) + 1 .. Len(trades')

\* the step is a call of enter_position with force_flip left at its default
EnterCall ==
    /\ lastCall'.op = "enter_position"
    /\ \E s \in RawSymbols, d \in Directions, p \in EntryPrices, l \in Leverages,
          ts \in TargetStops : Enter(s, d, p, l, ts[1], ts[2])

\* the step is a call of enter_position with force_flip=True
ForcedEnterCall ==
    /\ lastCall'.op = "manual_position_flip"
    /\ \E s \in RawSymbols, d \in Directions, l \in Leverages, p \in EntryPrices :
          ManualPositionFlip(s, d, l, p)

\* the step is a call of exit_position, full or partial
ExitCall ==
    /\ lastCall'.op \in {"manual_position_exit", "execute_partial_take_profit"}
    /\ \/ \E p \in Prices : ManualPositionExit(p)
       \/ \E p \in Prices : ExecutePartialTakeProfit(p)

\* no EXIT row follows another EXIT row without an ENTER row between them
NoExitTwice ==
    \A i \in 1 .. Len(trades) - 1 :
        ~(trades[i].action = "EXIT" /\ trades[i + 1].action = "EXIT")

\* no ENTER row follows another ENTER row without an EXIT row between them
NoEnterTwice ==
    \A i \in 1 .. Len(trades) - 1 :
        ~(trades[i].action = "ENTER" /\ trades[i + 1].action = "ENTER")

\* the step is a tick of the monitor
TickStep == monitor'.check_count = monitor.check_count + 1

\* tag is among the tags the tick record k holds in field signals
Fired(k, tag) == \E i \in DOMAIN k.signals : k.signals[i] = tag

\* the handler of tag called the Decision Source in the tick k records
Asked(k, tag) == \E i \in DOMAIN k.calls : k.calls[i] = tag

\* C1: enter_position without force_flip on the symbol and side of the open
\* position returns False and leaves balance, position and trade log as
\* they were, whatever price, leverage, target and stop it is given.
C1_SameSideEnterIsNoOp ==
    [][ \A s \in RawSymbols, d \in Directions, p \in EntryPrices, l \in Leverages,
           ts \in TargetStops :
           ( /\ lastCall'.op = "enter_position"
             /\ position # NoPosition
             /\ position[1].symbol = NormalizeSymbol(s)
             /\ position[1].direction = d
             /\ Enter(s, d, p, l, ts[1], ts[2]) )
           => ( /\ lastCall'.ret = FALSE
                /\ UNCHANGED ledgerVars ) ]_vars

\* a same-side entry was rejected while the position stayed open
C1_Witness ==
    /\ position # NoPosition
    /\ lastCall.op = "enter_position"
    /\ lastCall.log = "same position exists"

\* C2: the ledger holds at most one position, and every enter_position call
\* (force_flip or not) that opens a position while one is open first closes
\* the old one: its EXIT row precedes the new ENTER row and its proceeds
\* are credited to the balance.
C2_ReplacedOnlyAfterClose ==
    [][ ( /\ position # NoPosition
          /\ EnterCall \/ ForcedEnterCall
          /\ lastCall'.ret = TRUE )
        => ( /\ Len(position') = 1
             /\ Len(trades') = Len(trades) + 2
             /\ trades'[Len(trades) + 1].action = "EXIT"
             /\ trades'[Len(trades) + 1].symbol = position[1].symbol
             /\ trades'[Len(trades) + 1].direction = position[1].direction
             /\ trades'[Len(trades) + 2].action = "ENTER"
             /\ balance' = balance
                           + (position[1].invested_amount
                              + trades'[Len(trades) + 1].realized_pnl)
                           - (position'[1].invested_amount + position'[1].entry_fee) ) ]_vars

\* C3: an enter_position call that returns False leaves balance, position
\* and trade log as they were.
C3_FailedEnterChangesNothing ==
    [][ ( /\ EnterCall \/ ForcedEnterCall
          /\ lastCall'.ret = FALSE )
        => UNCHANGED ledgerVars ]_vars

\* C4: under every interleaving of two threads calling exit_position on the
\* same open position, the position is paid out once: the trade log never
\* holds two EXIT rows for one entry.
C4_SinglePayout == NoExitTwice

\* C5: under every interleaving of two threads calling enter_position on an
\* empty ledger, one position is created and paid for once: the trade log
\* never holds two ENTER rows in a row and the balance is never negative.
C5_SingleEntry == balance >= 0 /\ NoEnterTwice

\* C6: every enter_position call (entry, switch or flip, force_flip or not)
\* and every exit_position call (full or partial) changes balance + invested
\* margin by exactly minus the entry fee of the ENTER row it appends plus
\* the realized PnL of the EXIT rows it appends; so, from the initial
\* balance on, balance + invested margin = initial balance - entry fees
\* + realized PnL.
C6_Conservation ==
    [][ (EnterCall \/ ForcedEnterCall \/ ExitCall)
        => LET booked(i) == IF trades'[i].action = "EXIT"
                            THEN trades'[i].realized_pnl
                            ELSE - position'[1].entry_fee
               sum == IF NewRows = {} THEN 0
                      ELSE IF Len(trades') = Len(trades) + 1
                           THEN booked(Len(trades'))
                           ELSE booked(Len(trades) + 1) + booked(Len(trades) + 2)
           IN  (balance' + Margin') - (balance + Margin) = sum ]_vars

\* C7: the balance is never negative.
C7_BalanceNonNegative == balance >= 0

\* a full exit that lost more than 90% of the invested margin (possible only
\* at the floor) has been credited
C7_Witness ==
    \E i \in 1 .. Len(trades) - 1 :
        /\ trades[i].action = "ENTER"
        /\ trades[i + 1].action = "EXIT"
        /\ trades[i + 1].size = trades[i].size
        /\ 10 * trades[i + 1].realized_pnl < - 9 * trades[i].invested_amount

\* the step is an enter_position call on the symbol of the open position
\* with the opposite side: the decision path's, or the flip endpoint's
FlipCall(s, d, p, l, ts) ==
    /\ position # NoPosition
    /\ position[1].symbol = NormalizeSymbol(s)
    /\ position[1].direction # d
    /\ \/ lastCall'.op = "enter_position" /\ Enter(s, d, p, l, ts[1], ts[2])
       \/ /\ lastCall'.op = "manual_position_flip"
          /\ ts = <<None, None>>
          /\ ManualPositionFlip(s, d, l, p)

\* C8: enter_position on the symbol of the open position with the opposite
\* side leaves the balance and the position that exit_position at the same
\* price followed by enter_position with the same arguments leaves.
C8_FlipIsCloseThenOpen ==
    [][ \A s \in RawSymbols, d \in Directions, p \in EntryPrices, l \in Leverages,
           ts \in TargetStops :
           FlipCall(s, d, p, l, ts)
           => LET x == ExitPosition(Ledger, p, "Manual Exit", FullRatio)
                  e == EnterPosition(x.ledger, s, d, p, l, ts[1], ts[2], FALSE)
              IN  /\ balance' = e.ledger.balance
                  /\ position' = e.ledger.position
                  /\ lastCall'.ret = e.ret ]_vars

\* C9: a successful flip appends exactly two rows, the EXIT row of the old
\* side with its realized PnL and then the ENTER row of the new side, and
\* leaves an open position of the new side.
C9_FlipAppendsExitThenEnter ==
    [][ \A s \in RawSymbols, d \in Directions, p \in EntryPrices, l \in Leverages,
           ts \in TargetStops :
           (FlipCall(s, d, p, l, ts) /\ lastCall'.ret = TRUE)
           => LET q == ExitQuote(position[1], p, FullRatio)
                  n == Len(trades)
              IN  /\ Len(trades') = n + 2
                  /\ SubSeq(trades', 1, n) = trades
                  /\ trades'[n + 1].action = "EXIT"
                  /\ trades'[n + 1].direction = position[1].direction
                  /\ trades'[n + 1].size = position[1].position_size
                  /\ trades'[n + 1].realized_pnl = q.realized_pnl
                  /\ trades'[n + 2].action = "ENTER"
                  /\ trades'[n + 2].direction = d
                  /\ position' # NoPosition
                  /\ position'[1].direction = d
                  /\ position'[1].symbol = position[1].symbol ]_vars

\* C10: while one position is open its trailing stop, once set, never
\* decreases for LONG and never increases for SHORT, whatever prices
\* update_trailing_stop is given; a partial exit leaves it as it is.
C10_TrailingStopRatchets ==
    [][ ( /\ position # NoPosition
          /\ position' # NoPosition
          /\ \A i \in NewRows : trades'[i].action # "ENTER"
          /\ position[1].trailing_stop_price # None )
        => ( /\ position'[1].trailing_stop_price # None
             /\ position[1].direction = "LONG"
                   => position'[1].trailing_stop_price >= position[1].trailing_stop_price
             /\ position[1].direction = "SHORT"
                   => position'[1].trailing_stop_price <= position[1].trailing_stop_price
             /\ (lastCall'.op = "execute_partial_take_profit"
                    /\ \E p \in Prices : ExecutePartialTakeProfit(p))
                   => position'[1].trailing_stop_price = position[1].trailing_stop_price ) ]_vars

\* update_trailing_stop was called with a price behind the watermark after
\* the stop had been ratcheted to the far end of the price range
C10_Witness ==
    /\ position # NoPosition
    /\ position[1].trailing_stop_price # None
    /\ lastCall.op = "update_trailing_stop"
    /\ lastCall.ret = FALSE
    /\ \/ position[1].direction = "LONG" /\ position[1].highest_price = 4000
                                         /\ position[1].entry_price < 3000
       \/ position[1].direction = "SHORT" /\ position[1].lowest_price = 2000
                                          /\ position[1].entry_price > 3000

\* C11: a tick in which check_position_signals returns TRAILING_STOP ends
\* with no position, whatever other tags fired and whatever the Decision
\* Source answered, and the TRAILING_STOP handler asks nobody.
C11_TrailingStopAlwaysExits ==
    [][ (TickStep /\ Fired(lastTick', "TRAILING_STOP"))
        => ( /\ position' = NoPosition
             /\ Len(trades') > Len(trades)
             /\ trades'[Len(trades')].action = "EXIT"
             /\ ~Asked(lastTick', "TRAILING_STOP") ) ]_vars

\* TRAILING_STOP fired together with TARGET_REACHED, the Decision Source
\* was asked and answered BUY, and the exit came from the trailing stop
C11_Witness ==
    /\ Fired(lastTick, "TRAILING_STOP")
    /\ Fired(lastTick, "TARGET_REACHED")
    /\ lastTick.answer # << >>
    /\ lastTick.answer[1].recommendation = "BUY"
    /\ lastTick.answer[1].confidence >= MinConfidence
    /\ position = NoPosition
    /\ trades[Len(trades)].exit_reason = "Trailing Stop"

\* rows of the log written since the position now open was entered
RowsOfPosition ==
    { i \in DOMAIN trades : \A j \in i .. Len(trades) : trades[j].action = "EXIT" }

\* C12: during the lifetime of one position at most one exit carries the
\* scheduled partial take-profit reason, whatever the ticks, prices, tags
\* and Decision Source answers.
C12_OnePartialTakeProfit ==
    Cardinality({ i \in RowsOfPosition :
                    trades[i].exit_reason = "Partial Take Profit" }) <= 1

\* the tick of this step handled TARGET_REACHED outside the cooldown and
\* the Decision Source answered
TargetAnswered ==
    /\ TickStep
    /\ Asked(lastTick', "TARGET_REACHED")
    /\ lastTick'.answer # << >>
    /\ lastTick'.answer[1].kind = "answer"

\* the first row of the step is an exit of the given share of the position
\* (share in RateDen-ths) with the given reason
FirstRowExits(share, reason) ==
    /\ Len(trades') > Len(trades)
    /\ trades'[Len(trades) + 1].action = "EXIT"
    /\ trades'[Len(trades) + 1].exit_reason = reason
    /\ trades'[Len(trades) + 1].size * (RateDen \div share) = position[1].position_size

\* C14: outside the cooldown the answer of the Decision Source decides the
\* one action of the TARGET_REACHED handler: SELL or a confidence under 0.6
\* closes the position, HOLD at 0.6 or more sells half of it and leaves the
\* other half open, BUY at 0.6 or more leaves balance and position alone.
C14_AnswerDecidesAction ==
    [][ TargetAnswered =>
        LET a    == lastTick'.answer[1]
            sole == lastTick'.signals = << "TARGET_REACHED" >>
        IN  IF a.recommendation = "SELL" \/ a.confidence < MinConfidence
            THEN /\ position' = NoPosition
                 /\ Len(trades') = Len(trades) + 1
                 /\ FirstRowExits(FullRatio, "Target Reached - Exit Signal")
            ELSE IF a.recommendation = "HOLD"
            THEN /\ FirstRowExits(PartialTakeProfitRatio, "Partial Take Profit")
                 /\ sole => /\ Len(trades') = Len(trades) + 1
                             /\ position' # NoPosition
                             /\ position'[1].position_size * 2 = position[1].position_size
                             /\ balance' > balance
            ELSE /\ sole => /\ balance' = balance
                             /\ trades' = trades
                             /\ position' # NoPosition
                             /\ position'[1].position_size = position[1].position_size
                             /\ position'[1].invested_amount = position[1].invested_amount
                 /\ Len(trades') > Len(trades) =>
                        trades'[Len(trades) + 1].exit_reason
                            \in {"Trailing Stop", "Partial Take Profit"} ]_vars

\* TARGET_REACHED alone, answered HOLD with confidence 0.6: half is left
C14_Witness ==
    /\ lastTick.signals = << "TARGET_REACHED" >>
    /\ Asked(lastTick, "TARGET_REACHED")
    /\ lastTick.answer # << >>
    /\ lastTick.answer[1].recommendation = "HOLD"
    /\ lastTick.answer[1].confidence = MinConfidence
    /\ position # NoPosition
    /\ trades[Len(trades)].exit_reason = "Partial Take Profit"

\* the tick of this step handled TARGET_REACHED outside the cooldown and
\* the Decision Source was unavailable, returned an error or raised
TargetUnanswered ==
    /\ TickStep
    /\ Asked(lastTick', "TARGET_REACHED")
    /\ lastTick'.answer # << >>
    /\ lastTick'.answer[1].kind \in Failures

\* C15: when the Decision Source fails inside the TARGET_REACHED handling,
\* the tick sells exactly one half with the partial take-profit reason,
\* the handler closes nothing in full, and the Decision Source is called
\* once in the tick.
C15_FailureTakesPartialProfit ==
    [][ TargetUnanswered =>
        /\ FirstRowExits(PartialTakeProfitRatio, "Partial Take Profit")
        /\ Cardinality({ i \in NewRows :
                           trades'[i].exit_reason = "Partial Take Profit" }) = 1
        /\ \A i \in NewRows : trades'[i].exit_reason # "Target Reached - Exit Signal"
        /\ Len(lastTick'.calls) = 1
        /\ ~Fired(lastTick', "TRAILING_STOP") =>
               /\ Len(trades') = Len(trades) + 1
               /\ position' # NoPosition
               /\ position'[1].position_size * 2 = position[1].position_size ]_vars

\* the Decision Source raised while TARGET_REACHED was handled
C15_Witness ==
    /\ Fired(lastTick, "TARGET_REACHED")
    /\ lastTick.calls = << "TARGET_REACHED" >>
    /\ lastTick.answer # << >>
    /\ lastTick.answer[1].kind = "raises"
    /\ position # NoPosition
    /\ Len(trades) = 2
    /\ trades[2].exit_reason = "Partial Take Profit"

\* the tick of this step dispatched TARGET_REACHED for an instrument whose
\* last TARGET_REACHED handling ended less than a cooldown ago
TargetCooling ==
    /\ TickStep
    /\ Fired(lastTick', "TARGET_REACHED")
    /\ monitor.last_analysis_time[position[1].symbol] # None
    /\ now' < monitor.last_analysis_time[position[1].symbol] + AnalysisCooldown

\* C16: a TARGET_REACHED tag dispatched less than a cooldown after the last
\* handling for the same instrument is skipped: the Decision Source is not
\* called, the time of the last handling stays, no row carries a reason of
\* that handler, and when no other tag fired the ledger is left alone. So
\* two calls of the Decision Source for one instrument are at least a
\* cooldown apart.
C16_CooldownSkipsTarget ==
    [][ /\ TargetCooling =>
            /\ lastTick'.calls = << >>
            /\ monitor'.last_analysis_time = monitor.last_analysis_time
            /\ \A i \in NewRows : trades'[i].exit_reason # "Target Reached - Exit Signal"
            /\ ~Fired(lastTick', "TRAILING_STOP") =>
                  \A i \in NewRows : /\ Fired(lastTick', "PARTIAL_TAKE_PROFIT")
                                      /\ i = Len(trades) + 1
                                      /\ ~position[1].partial_profit_taken
            /\ lastTick'.signals = << "TARGET_REACHED" >> =>
                  /\ balance' = balance
                  /\ trades' = trades
                  /\ position' # NoPosition
                  /\ position'[1].position_size = position[1].position_size
                  /\ position'[1].invested_amount = position[1].invested_amount
        /\ (TickStep /\ Asked(lastTick', "TARGET_REACHED")) =>
            \/ monitor.last_analysis_time[position[1].symbol] = None
            \/ now' - monitor.last_analysis_time[position[1].symbol] >= AnalysisCooldown ]_vars

\* TARGET_REACHED came back one second before the cooldown ran out and was
\* skipped: the position is open and nobody was asked
C16_Witness ==
    /\ lastTick.signals = << "TARGET_REACHED" >>
    /\ lastTick.calls = << >>
    /\ position # NoPosition
    /\ monitor.last_analysis_time[position[1].symbol] # None
    /\ now = monitor.last_analysis_time[position[1].symbol] + AnalysisCooldown - 1

\* the monitoring threads that are inside the body of a tick
Ticking == { i \in DOMAIN loops : loops[i] = "tick" }

\* C13: whatever the order of start_monitoring and stop_monitoring calls
\* and of the steps of the threads, at most one monitoring loop is
\* executing a tick.
C13_OneLoopTicks == Cardinality(Ticking) <= 1

\* C17: an exception inside a tick does not end the loop: the thread goes
\* on to its sleep, and as long as the running flag stays set a further
\* tick is counted.
C17_LoopSurvivesFailure ==
    /\ [][ \A i \in DOMAIN loops :
             (loops[i] = "tick" /\ loops'[i] # "tick" /\ lastTick'.raised)
                => loops'[i] = "sleep" ]_vars
    /\ \A i \in 1 .. MaxLoops, n \in 1 .. MaxTicks - 1 :
          (/\ Len(loops) >= i
           /\ loops[i] = "sleep"
           /\ lastTick.raised
           /\ monitor.check_count = n)
             ~> (monitor.check_count > n \/ ~monitor.running)

\* a tick raised, the thread slept and, the flag still set, is inside the
\* next tick
C17_Witness ==
    /\ lastTick.raised
    /\ monitor.running
    /\ monitor.check_count = 1
    /\ loops = << "tick" >>

\* C18: stop_monitoring leaves the threads where they are, so a tick in
\* progress runs to its end; a loop that tests the cleared flag ends and
\* never ticks again; and unless the monitor is started again every loop
\* ends.
C18_StopEndsLoopAtTickBoundary ==
    /\ [][ /\ (monitor.running /\ ~monitor'.running) => loops' = loops
           /\ \A i \in DOMAIN loops :
                 /\ (loops[i] = "while" /\ loops'[i] # "while" /\ ~monitor.running)
                       => loops'[i] = "done"
                 /\ loops[i] = "done" => loops'[i] = "done" ]_vars
    /\ \A i \in 1 .. MaxLoops :
          /\ (Len(loops) >= i /\ loops[i] = "tick")
                ~> (Len(loops) >= i /\ loops[i] = "sleep")
          /\ (Len(loops) >= i /\ ~monitor.running)
                ~> (monitor.running \/ (Len(loops) >= i /\ loops[i] = "done"))

\* the monitor was stopped after a tick and its loop has ended
C18_Witness ==
    /\ lastCall.op = "stop_monitoring"
    /\ ~monitor.running
    /\ monitor.check_count >= 1
    /\ loops = << "done" >>

\* the step is a start_monitoring or stop_monitoring call that returned
MonitorCall(op) == lastCall' # lastCall /\ lastCall'.op = op

\* C19: start_monitoring on a running monitor returns False and spawns no
\* thread; stop_monitoring on a stopped monitor leaves the flag False and
\* changes nothing else.
C19_StartStopIdempotent ==
    [][ /\ (MonitorCall("start_monitoring") /\ monitor.running)
            => /\ lastCall'.ret = FALSE
               /\ UNCHANGED <<monitor, loops, ledgerVars, lastTick>>
        /\ (MonitorCall("stop_monitoring") /\ ~monitor.running)
            => /\ ~monitor'.running
               /\ UNCHANGED <<monitor, loops, ledgerVars, lastTick>> ]_vars

\* start_monitoring was refused on a running monitor with its one thread
C19_Witness ==
    /\ lastCall.op = "start_monitoring"
    /\ lastCall.ret = FALSE
    /\ monitor.running
    /\ Len(loops) = 1
    /\ loops[1] # "done"

\* the step is a manual full exit of a position whose log so far is its
\* ENTER row and one partial take-profit row
FullExitAfterPartial ==
    /\ lastCall'.op = "manual_position_exit"
    /\ position # NoPosition
    /\ Len(trades) >= 2
    /\ trades[Len(trades) - 1].action = "ENTER"
    /\ trades[Len(trades)].action = "EXIT"
    /\ trades[Len(trades)].exit_reason = "Partial Take Profit"
    /\ Len(trades') = Len(trades) + 1

\* C20: a partial exit of the fraction f at p1 followed by a full exit at
\* p2 leaves no position; the two credits are the proceeds (slice value
\* less exit fee) of the f slice of the position as entered at p1 and of
\* its 1 - f slice at p2; and for p1 = p2 they add up to the credit of one
\* full exit at that price, to the rounding of the two fee amounts.
C20_PartialThenFullExit ==
    [][ FullExitAfterPartial =>
        LET n  == Len(trades)
            f  == PartialTakeProfitRatio
            p0 == [position[1] EXCEPT !.position_size   = trades[n - 1].size,
                                      !.invested_amount = trades[n - 1].invested_amount]
            credit1 == Scale(trades[n - 1].invested_amount, f) + trades[n].realized_pnl
            credit2 == balance' - balance
        IN  /\ position' = NoPosition
            /\ trades'[n + 1].action = "EXIT"
            /\ \E p1 \in Prices :
                  /\ trades[n].price = ApplySlippage(p1, p0.direction, "EXIT")
                  /\ credit1 = ExitQuote(p0, p1, f).final_position_value
            /\ \E p2 \in Prices :
                  /\ trades'[n + 1].price = ApplySlippage(p2, p0.direction, "EXIT")
                  /\ credit2 = ExitQuote(p0, p2, RateDen - f).final_position_value
                  /\ trades[n].price = trades'[n + 1].price =>
                        Abs(credit1 + credit2
                            - ExitQuote(p0, p2, FullRatio).final_position_value)
                          <= Quantum ]_vars

\* half of a position was sold at one price and the rest at another
C20_Witness ==
    /\ Len(trades) = 3
    /\ position = NoPosition
    /\ trades[1].action = "ENTER"
    /\ trades[2].exit_reason = "Partial Take Profit"
    /\ trades[3].exit_reason = "Manual Exit"
    /\ trades[2].price # trades[3].price
    /\ lastCall.op = "manual_position_exit"

\* the step appends an ENTER row last: an entry succeeded
Entered ==
    /\ Len(trades') > Len(trades)
    /\ trades'[Len(trades')].action = "ENTER"

\* x is a * num / den, rounded down to the quantum
IsShare(x, a, num, den) ==
    /\ x <= MulDiv(a, num, den)
    /\ MulDiv(a, num, den) < x + Quantum

\* the balance the sizing of the step starts from: the balance before the
\* call, plus the proceeds of the exit when the call closed a position
\* first (margin back plus realized PnL, as its EXIT row records it)
SizingBalance ==
    IF Len(trades') = Len(trades) + 2
    THEN balance + position[1].invested_amount + trades'[Len(trades) + 1].realized_pnl
    ELSE balance

\* C21: a successful entry from balance B uses 0.95 B, of which the fee
\* rate's share is the entry fee and the rest the invested margin; the size
\* is margin times leverage over the fill price; the balance drops by the
\* 0.95 B, so balance after + margin + fee = B.
C21_EntrySizing ==
    [][ Entered =>
        LET B         == SizingBalance
            p         == position'[1]
            available == B - balance'
        IN  /\ IsShare(available, B, UtilizationRatio, RateDen)
            /\ IsShare(p.entry_fee, available, TradingFeeRate, RateDen)
            /\ p.invested_amount = available - p.entry_fee
            /\ IsShare(p.position_size, p.invested_amount * p.leverage,
                       SizeUnit, p.entry_price)
            /\ balance' + p.invested_amount + p.entry_fee = B
            /\ trades'[Len(trades')].invested_amount = p.invested_amount
            /\ trades'[Len(trades')].size = p.position_size ]_vars

\* a position entered with leverage 2 from the balance a flip had freed
C21_Witness ==
    /\ Len(trades) = 3
    /\ trades[2].exit_reason = "Position Flip"
    /\ trades[3].action = "ENTER"
    /\ position # NoPosition
    /\ position[1].leverage = 2
    /\ position[1].entry_fee > 0
    /\ lastCall.ret = TRUE

\* the step closes the open position or a part of it: its first new row
\* is an EXIT row
Exited ==
    /\ position # NoPosition
    /\ Len(trades') > Len(trades)
    /\ trades'[Len(trades) + 1].action = "EXIT"

\* C22: an exit of the fraction c of a position values the slice at its
\* margin (c of the invested margin) times 1 + leverage times the change of
\* the fill against the entry price in the position's direction, but at
\* least 5% of that margin; the fee is the fee rate's share of the value;
\* the realized PnL is value less margin less fee; and the balance rises by
\* value less fee, which is positive.
C22_ExitProceeds ==
    [][ Exited =>
        LET p      == position[1]
            row    == trades'[Len(trades) + 1]
            margin == IF row.size = p.position_size
                      THEN p.invested_amount
                      ELSE p.invested_amount \div 2
            change == IF p.direction = "LONG"
                      THEN row.price - p.entry_price
                      ELSE p.entry_price - row.price
            value  == Max(margin + RoundQ(MulDiv(margin * p.leverage, change,
                                                 p.entry_price)),
                          RoundQ(MulDiv(margin, MinValueRatio, RateDen)))
            fee    == RoundQ(MulDiv(value, TradingFeeRate, RateDen))
            credit == value - fee
        IN  /\ row.size \in {p.position_size, p.position_size \div 2}
            /\ row.size * 2 = p.position_size => p.invested_amount % 2 = 0
            /\ row.realized_pnl = value - margin - fee
            /\ credit > 0
            /\ IF lastCall'.op = "reset_portfolio"
               THEN TRUE
               ELSE IF Len(trades') = Len(trades) + 1
               THEN balance' = balance + credit
               ELSE /\ position' # NoPosition
                    /\ balance' + position'[1].invested_amount
                          + position'[1].entry_fee = balance + credit
            /\ (position' # NoPosition /\ Len(trades') = Len(trades) + 1)
                  => position'[1].total_fees_paid = p.total_fees_paid + fee ]_vars

\* a leveraged position was closed at the 5% floor of its margin
C22_Witness ==
    /\ Len(trades) >= 2
    /\ position = NoPosition
    /\ trades[Len(trades) - 1].action = "ENTER"
    /\ trades[Len(trades)].action = "EXIT"
    /\ trades[Len(trades)].realized_pnl
          < 0 - MulDiv(trades[Len(trades) - 1].invested_amount, 9, 10)

\* C23: every fill is worse for the trader than the price asked: above it
\* when buying (LONG entry, SHORT exit), below it when selling (SHORT
\* entry, LONG exit), and on both paths by the one slippage fraction of
\* the price.
C23_SlippageAgainstTrader ==
    (lastCall.op = "_apply_slippage" /\ lastCall.ret # None) =>
        LET p     == lastCall.price
            buys  == (lastCall.action = "ENTER") = (lastCall.direction = "LONG")
            slip  == IF buys THEN lastCall.ret - p ELSE p - lastCall.ret
            exact == MulDiv(p, SlippageRate, RateDen)
        IN  /\ slip > 0
            /\ exact <= slip
            /\ slip <= exact + 1

\* a LONG exit was filled below the price asked
C23_Witness ==
    /\ lastCall.op = "_apply_slippage"
    /\ lastCall.direction = "LONG"
    /\ lastCall.action = "EXIT"
    /\ lastCall.ret # None
    /\ lastCall.ret < lastCall.price

\* the step is a read of the ledger of the given kind that returned
ReadCall(op) == lastCall'.op = op /\ (lastCall.op # op \/ lastCall' # lastCall)

\* tag is among the tags in the sequence tags
Has(tags, tag) == \E i \in DOMAIN tags : tags[i] = tag

\* C24: check_position_signals returns TARGET_REACHED exactly when a target
\* is set and the price is at or beyond it in the position's favour,
\* TRAILING_STOP exactly when a trailing stop is set and the price is at or
\* beyond it against the position, PARTIAL_TAKE_PROFIT exactly when the
\* leveraged unrealized profit is at least 10% of the margin and the
\* partial profit has not been taken; nothing without a position.
C24_SignalsMatchState ==
    [][ ReadCall("check_position_signals") =>
        LET tags  == lastCall'.ret
            price == lastCall'.price
        IN  IF position = NoPosition THEN tags = << >>
            ELSE LET p      == position[1]
                     long   == p.direction = "LONG"
                     change == IF long THEN price - p.entry_price
                                       ELSE p.entry_price - price
                     profit == RoundQ(MulDiv(p.invested_amount * p.leverage, change,
                                             p.entry_price))
                 IN  /\ Has(tags, "TARGET_REACHED") <=>
                           /\ p.target_price # None
                           /\ IF long THEN price >= p.target_price
                                      ELSE price <= p.target_price
                     /\ Has(tags, "TRAILING_STOP") <=>
                           /\ p.trailing_stop_price # None
                           /\ IF long THEN price <= p.trailing_stop_price
                                      ELSE price >= p.trailing_stop_price
                     /\ Has(tags, "PARTIAL_TAKE_PROFIT") <=>
                           /\ profit * 10 >= p.invested_amount
                           /\ ~p.partial_profit_taken
                     /\ \A i \in DOMAIN tags :
                           /\ tags[i] \in {"TARGET_REACHED", "TRAILING_STOP",
                                           "PARTIAL_TAKE_PROFIT"}
                           /\ \A j \in DOMAIN tags : tags[i] = tags[j] => i = j ]_vars

\* a leveraged LONG position read at a price under its trailing stop that
\* still shows 10% profit on the margin: two tags, no target
C24_Witness ==
    /\ lastCall.op = "check_position_signals"
    /\ lastCall.ret = << "TRAILING_STOP", "PARTIAL_TAKE_PROFIT" >>
    /\ position # NoPosition
    /\ position[1].leverage = 2
    /\ position[1].direction = "LONG"

\* the step is a read of the ledger of one of the three read-only kinds
ReadStep == \E op \in ReadOps : ReadCall(op)

\* C25: check_position_signals, get_position_summary and
\* get_portfolio_status change nothing: whatever the ledger and whatever
\* price the oracle gives, none included, the balance, every field of the
\* position and the trade log are after the call what they were before it.
C25_ReadsChangeNothing ==
    [][ ReadStep => /\ balance' = balance
                    /\ position' = position
                    /\ trades' = trades ]_vars

\* a summary was read without an oracle price on a position whose trailing
\* stop has been ratcheted and whose partial profit was taken
C25_Witness ==
    /\ lastCall.op = "get_position_summary"
    /\ lastCall.price = None
    /\ lastCall.ret.has_position
    /\ position # NoPosition
    /\ position[1].partial_profit_taken
    /\ position[1].trailing_stop_price # None
    /\ lastCall.ret.position_size = position[1].position_size
    /\ lastCall.ret.current_price = position[1].entry_price

-----------------------------------------------------------------------------
(* A projection read while the ledger is mutated.  The position monitor's
   thread calls exit_position (trailing stop, partial take profit) while
   the request path calls get_position_summary; neither takes a lock, so
   each can be preempted between two statements.  Each action below is one
   group of statements of one thread. *)

Mutator == "worker"

Reader == "request"

\* the exits the monitor's thread makes and the ratio each passes
SnapshotReasons == {"Partial Take Profit", "Trailing Stop"}

SnapshotRatio(reason) ==
    IF reason = "Partial Take Profit" THEN PartialTakeProfitRatio ELSE FullRatio

\* what the oracle answers the reader: a price, or nothing
SnapshotPrices == {None, 2100}

\* the dict get_position_summary builds, before any field is read
NoView == [has_position |-> FALSE, direction |-> "", position_size |-> 0,
           invested_amount |-> 0, position_value |-> 0, unrealized_pnl |-> 0,
           partial_profit_taken |-> FALSE, total_fees_paid |-> 0]

\* the locals of a thread.  before (the position when the mutation began)
\* and committed (the positions the ledger held between mutations while
\* the read ran) are kept to state what a consistent read is
SnapshotLocals == [price |-> None, reason |-> "", exit_quote |-> << >>,
                   before |-> NoPosition, view |-> NoView, committed |-> {}]

\* a position is open: the decision path entered on the fresh ledger
InitSnapshot ==
    /\ initial_balance = DefaultInitialBalance * Unit
    /\ \E d \in Directions, l \in Leverages :
          \E r \in {EnterPosition([balance |-> initial_balance, position |-> NoPosition,
                                   trades |-> << >>],
                                  "SOL/USDT", d, 2000, l, None, None, FALSE)} :
              /\ balance = r.ledger.balance
              /\ position = r.ledger.position
              /\ trades = r.ledger.trades
              /\ lastCall = [op |-> "enter_position", ret |-> r.ret, log |-> r.log]
    /\ pc = [t \in Threads |-> "idle"]
    /\ loc = [t \in Threads |-> SnapshotLocals]
    /\ monitor = [NewMonitor EXCEPT !.running = TRUE]
    /\ now = StartOfTime
    /\ loops = << "while" >>
    /\ lastTick = NoTick
    /\ signal_history = NoSignalHistory
    /\ emitted = << >>

\* the monitor's thread, having seen an open position, calls
\* exit_position(price, reason, ratio)
BeginSnapshotExit(price, reason) ==
    /\ pc[Mutator] = "idle"
    /\ position # NoPosition
    /\ Len(trades) <= MaxTrades
    /\ pc' = [pc EXCEPT ![Mutator] = "exit_198"]
    /\ loc' = [loc EXCEPT ![Mutator] = [SnapshotLocals EXCEPT !.price = price,
                                                             !.reason = reason,
                                                             !.before = position]]
    /\ UNCHANGED <<monitorVars, initial_balance, signalVars, ledgerVars, lastCall>>

\* exit_position returns: the mutation is complete
SnapshotExitReturn ==
    /\ pc' = [pc EXCEPT ![Mutator] = "idle"]
    /\ loc' = [t \in Threads |->
                 IF t = Mutator THEN SnapshotLocals
                 ELSE IF pc[t] = "idle" THEN loc[t]
                 ELSE [loc[t] EXCEPT !.committed = @ \cup {position'}]]
    /\ lastCall' = [op |-> "exit_position", ret |-> TRUE, log |-> "exited"]

\* lines 198-251: the quote, self.current_balance += final_position_value
\* and the EXIT row
SnapshotExit198 ==
    /\ pc[Mutator] = "exit_198"
    /\ \E q \in {ExitQuote(position[1], loc[Mutator].price,
                           SnapshotRatio(loc[Mutator].reason))} :
          /\ balance' = balance + q.final_position_value
          /\ trades' = Append(trades, ExitTrade(position[1], q, loc[Mutator].reason))
          /\ loc' = [loc EXCEPT ![Mutator].exit_quote = << q >>]
    /\ pc' = [pc EXCEPT ![Mutator] =
                 IF SnapshotRatio(loc[Mutator].reason) < FullRatio
                 THEN "exit_259" ELSE "exit_267"]
    /\ UNCHANGED <<monitorVars, initial_balance, signalVars, position, lastCall>>

\* line 259: self.current_position['position_size'] *= (1 - partial_ratio)
SnapshotExit259 ==
    /\ pc[Mutator] = "exit_259"
    /\ position' = << [position[1] EXCEPT !.position_size =
                          Scale(@, RateDen - SnapshotRatio(loc[Mutator].reason))] >>
    /\ pc' = [pc EXCEPT ![Mutator] = "exit_260"]
    /\ UNCHANGED <<monitorVars, initial_balance, signalVars, balance, trades, lastCall, loc>>

\* line 260: self.current_position['invested_amount'] *= (1 - partial_ratio)
SnapshotExit260 ==
    /\ pc[Mutator] = "exit_260"
    /\ position' = << [position[1] EXCEPT !.invested_amount =
                          Scale(@, RateDen - SnapshotRatio(loc[Mutator].reason))] >>
    /\ pc' = [pc EXCEPT ![Mutator] = "exit_261"]
    /\ UNCHANGED <<monitorVars, initial_balance, signalVars, balance, trades, lastCall, loc>>

\* lines 261-264: total_fees_paid += exit_fee; partial_profit_taken = True
\* under the reason "Partial Take Profit"; return exit_info
SnapshotExit261 ==
    /\ pc[Mutator] = "exit_261"
    /\ position' = << [position[1] EXCEPT
                          !.total_fees_paid = @ + loc[Mutator].exit_quote[1].exit_fee,
                          !.partial_profit_taken =
                              IF loc[Mutator].reason = "Partial Take Profit"
                              THEN TRUE ELSE @] >>
    /\ SnapshotExitReturn
    /\ UNCHANGED <<monitorVars, initial_balance, signalVars, balance, trades>>

\* line 267: self.current_position = None; return exit_info
SnapshotExit267 ==
    /\ pc[Mutator] = "exit_267"
    /\ position' = NoPosition
    /\ SnapshotExitReturn
    /\ UNCHANGED <<monitorVars, initial_balance, signalVars, balance, trades>>

\* the request path calls get_position_summary(); the oracle will answer
\* oracle_price
BeginSummary(oracle_price) ==
    /\ pc[Reader] = "idle"
    /\ pc' = [pc EXCEPT ![Reader] = "summary_411"]
    /\ loc' = [loc EXCEPT ![Reader] =
                  [SnapshotLocals EXCEPT
                      !.price = oracle_price,
                      !.committed = {IF pc[Mutator] = "idle" THEN position
                                     ELSE loc[Mutator].before}]]
    /\ UNCHANGED <<monitorVars, initial_balance, signalVars, ledgerVars, lastCall>>

\* get_position_summary returns the dict view
SummaryReturn(view) ==
    /\ pc' = [pc EXCEPT ![Reader] = "idle"]
    /\ loc' = [loc EXCEPT ![Reader].view = view]
    /\ lastCall' = [op |-> "get_position_summary", price |-> loc[Reader].price,
                    ret |-> view, log |-> ""]

\* subscripting self.current_position when it is None raises TypeError;
\* get_position_summary catches nothing
SummaryRaise ==
    /\ pc' = [pc EXCEPT ![Reader] = "idle"]
    /\ lastCall' = [op |-> "get_position_summary", price |-> loc[Reader].price,
                    ret |-> NoView, log |-> "TypeError"]
    /\ UNCHANGED loc

\* lines 411-412: if not self.current_position: return {'has_position': False}
Summary411 ==
    /\ pc[Reader] = "summary_411"
    /\ IF position = NoPosition
       THEN SummaryReturn(NoView)
       ELSE pc' = [pc EXCEPT ![Reader] = "summary_414"] /\ UNCHANGED <<loc, lastCall>>
    /\ UNCHANGED <<monitorVars, initial_balance, signalVars, ledgerVars>>

\* lines 414-415: the oracle is asked for self.current_position['symbol'];
\* without a price, self.current_position['entry_price'] is taken
Summary414 ==
    /\ pc[Reader] = "summary_414"
    /\ IF position = NoPosition
       THEN SummaryRaise
       ELSE /\ pc' = [pc EXCEPT ![Reader] = "summary_417"]
            /\ loc' = [loc EXCEPT ![Reader].price =
                          IF @ = None THEN position[1].entry_price ELSE @]
            /\ UNCHANGED lastCall
    /\ UNCHANGED <<monitorVars, initial_balance, signalVars, ledgerVars>>

\* line 417: _calculate_position_metrics(current_price), zeros without a
\* position
Summary417 ==
    /\ pc[Reader] = "summary_417"
    /\ IF position = NoPosition
       THEN loc' = [loc EXCEPT ![Reader].view = NoView]
       ELSE \E m \in {CalculatePositionMetrics(position[1], loc[Reader].price,
                                               position[1].position_size)} :
               loc' = [loc EXCEPT ![Reader].view =
                          [NoView EXCEPT !.position_value = m.position_value,
                                         !.unrealized_pnl = m.pnl]]
    /\ pc' = [pc EXCEPT ![Reader] = "summary_421"]
    /\ UNCHANGED <<monitorVars, initial_balance, signalVars, ledgerVars, lastCall>>

\* lines 419-425: the dict up to 'position_size'
Summary421 ==
    /\ pc[Reader] = "summary_421"
    /\ IF position = NoPosition
       THEN SummaryRaise
       ELSE /\ pc' = [pc EXCEPT ![Reader] = "summary_426"]
            /\ loc' = [loc EXCEPT ![Reader].view =
                          [@ EXCEPT !.has_position = TRUE,
                                    !.direction = position[1].direction,
                                    !.position_size = position[1].position_size]]
            /\ UNCHANGED lastCall
    /\ UNCHANGED <<monitorVars, initial_balance, signalVars, ledgerVars>>

\* lines 426-435: the dict from 'invested_amount' on; return
Summary426 ==
    /\ pc[Reader] = "summary_426"
    /\ IF position = NoPosition
       THEN SummaryRaise
       ELSE SummaryReturn([loc[Reader].view EXCEPT
                              !.invested_amount = position[1].invested_amount,
                              !.partial_profit_taken = position[1].partial_profit_taken,
                              !.total_fees_paid = position[1].total_fees_paid])
    /\ UNCHANGED <<monitorVars, initial_balance, signalVars, ledgerVars>>

NextSnapshot ==
    \/ \E p \in EntryPrices, r \in SnapshotReasons : BeginSnapshotExit(p, r)
    \/ SnapshotExit198
    \/ SnapshotExit259
    \/ SnapshotExit260
    \/ SnapshotExit261
    \/ SnapshotExit267
    \/ \E p \in SnapshotPrices : BeginSummary(p)
    \/ Summary411
    \/ Summary414
    \/ Summary417
    \/ Summary421
    \/ Summary426

SpecSnapshot == InitSnapshot /\ [][NextSnapshot]_vars

\* the summary the reader returned shows position P (or no position)
ShowsPosition(view, P) ==
    IF P = NoPosition THEN ~view.has_position
    ELSE /\ view.has_position
         /\ view.direction = P[1].direction
         /\ view.position_size = P[1].position_size
         /\ view.invested_amount = P[1].invested_amount
         /\ view.partial_profit_taken = P[1].partial_profit_taken

\* the reader is back from get_position_summary
SummaryReturned == pc[Reader] = "idle" /\ lastCall.op = "get_position_summary"

\* C26: a projection that runs while the ledger is mutated does not fail,
\* and the size, margin, side and flag it returns are those of one state
\* the ledger held before or after a mutation.
C26_ConsistentSnapshot ==
    SummaryReturned =>
        /\ lastCall.log # "TypeError"
        /\ \E P \in loc[Reader].committed : ShowsPosition(lastCall.ret, P)

-----------------------------------------------------------------------------
(* The forced check beside the ticks of the monitor *)

\* POST /position/check, force_position_check(): without a position it says
\* so; otherwise it runs _check_position, for which the oracle answers
\* first, and returns get_position_summary(), for which the oracle is asked
\* again when a position is still open and answers second.  answers holds
\* what the oracle was asked for, in order
ForcePositionCheck(first, second, outcome) ==
    /\ monitor.signal_count < MaxTicks
    /\ Len(trades) <= MaxTrades
    /\ IF position = NoPosition
       THEN /\ lastCall' = [op |-> "force_position_check", ret |-> "no_position",
                            answers |-> << >>, summary |-> [has_position |-> FALSE],
                            log |-> ""]
            /\ UNCHANGED <<ledgerVars, monitor, lastTick>>
       ELSE \E r \in {CheckPosition(Ledger, monitor.last_analysis_time, first,
                                    outcome, now)} :
               /\ ~r.inexact
               /\ Becomes(r.ledger)
               /\ monitor' = [monitor EXCEPT
                                 !.signal_count = IF r.signals # << >> THEN @ + 1 ELSE @,
                                 !.last_analysis_time = r.last_analysis_time]
               /\ lastTick' = [price   |-> first,
                               signals |-> r.signals,
                               acts    |-> r.acts,
                               calls   |-> r.calls,
                               answer  |-> IF r.calls # << >> THEN << outcome >> ELSE << >>,
                               raised  |-> FALSE]
               /\ lastCall' = [op |-> "force_position_check", ret |-> "checked",
                               answers |-> IF HasPosition(r.ledger)
                                           THEN << first, second >> ELSE << first >>,
                               summary |-> GetPositionSummary(r.ledger, second),
                               log |-> ""]
    /\ UNCHANGED <<initial_balance, signalVars, pc, loc, now, loops>>

\* what the oracle answers the summary of a forced check
SummaryPrices == {None, 2000}

\* every LogEvery-th tick logs the monitor's status, with a position summary
LogEvery == 30

NextForce ==
    \/ \E d \in Directions, tp \in MonitorTargets : FreshEntry("SOL/USDT", d, 2000, tp)
    \/ \E p \in Prices \cup {None}, o \in Outcomes : MonitorTick(p, o, CheckInterval)
    \/ \E p \in Prices \cup {None}, q \in SummaryPrices, o \in Outcomes :
          ForcePositionCheck(p, q, o)

SpecForce == InitMonitor /\ [][NextForce]_vars

\* the step is a forced check that returned
ForceStep == ReadCall("force_position_check")

\* the step is a tick or a forced check on an open position for which the
\* oracle had no price
NoPriceStep ==
    /\ position # NoPosition
    /\ TickStep \/ ForceStep
    /\ lastTick'.price = None

\* the step is a tick that logs the monitor's status
LoggingTick == TickStep /\ monitor'.check_count % LogEvery = 0

\* how often the step asked the oracle: _check_position asks once
OracleQueries == IF ForceStep THEN Len(lastCall'.answers) ELSE 1

\* the step changed nothing of the ledger and the monitor's bookkeeping and
\* did not call the Decision Source
NothingDone ==
    /\ UNCHANGED <<balance, position, trades>>
    /\ monitor'.last_analysis_time = monitor.last_analysis_time
    /\ monitor'.signal_count = monitor.signal_count
    /\ lastTick'.signals = << >>
    /\ lastTick'.calls = << >>
    /\ lastTick'.acts = << >>

C28_ResetRestoresInitial ==
    [][ ReadCall("reset_portfolio") =>
          /\ balance' = initial_balance
          /\ position' = NoPosition
          /\ IF position = NoPosition
             THEN trades' = trades
             ELSE /\ Len(trades') = Len(trades) + 1
                  /\ SubSeq(trades', 1, Len(trades)) = trades
                  /\ trades'[Len(trades')].action = "EXIT"
                  /\ trades'[Len(trades')].exit_reason = "Portfolio Reset"
                  /\ trades'[Len(trades')].symbol = position[1].symbol
                  /\ trades'[Len(trades')].direction = position[1].direction
                  /\ trades'[Len(trades')].size = position[1].position_size ]_vars

\* a reset that found a position, made without an oracle price after a
\* partial exit: the remainder is closed and the balance restored
C28_Witness ==
    /\ lastCall.op = "reset_portfolio"
    /\ lastCall.log = "closed and reset"
    /\ balance = initial_balance
    /\ position = NoPosition
    /\ Len(trades) = 3
    /\ trades[2].action = "EXIT"
    /\ trades[3].action = "EXIT"
    /\ trades[3].exit_reason = "Portfolio Reset"

-----------------------------------------------------------------------------
(* Entries on ledgers whose balance is at the floor and next to it *)

\* initial balances around min_balance, in ledger units: one cent under
\* it, the floor itself, one cent over it, and DefaultInitialBalance
FloorBalances == {MinBalance * Unit - Quantum, MinBalance * Unit,
                  MinBalance * Unit + Quantum, DefaultInitialBalance * Unit}

InitFloor ==
    /\ initial_balance \in FloorBalances
    /\ balance = initial_balance
    /\ position = NoPosition
    /\ trades = << >>
    /\ lastCall = [op |-> "__init__", ret |-> TRUE, log |-> ""]
    /\ pc = [t \in Threads |-> "idle"]
    /\ loc = [t \in Threads |-> NoLocals]
    /\ monitor = NewMonitor
    /\ now = StartOfTime
    /\ loops = << >>
    /\ lastTick = NoTick
    /\ signal_history = NoSignalHistory
    /\ emitted = << >>

NextFloor ==
    \/ \E s \in RawSymbols, d \in Directions, p \in EntryPrices, l \in Leverages,
          ts \in TargetStops : Enter(s, d, p, l, ts[1], ts[2])
    \/ \E p \in Prices : ManualPositionExit(p)

SpecFloor == InitFloor /\ [][NextFloor]_vars

\* the step is an enter_position call on a ledger without a position
EnterOnEmptyLedger == position = NoPosition /\ lastCall'.op = "enter_position"

\* C29: enter_position on a ledger without a position and with a balance
\* under the floor of 100 returns False and leaves balance, position and
\* trade log as they were; with a balance at or over the floor (and a
\* positive price) it returns True, opens the position, appends its ENTER
\* row and takes the stake from the balance.
C29_FloorGuardsEntry ==
    [][ EnterOnEmptyLedger =>
          IF balance < MinBalance * Unit
          THEN /\ lastCall'.ret = FALSE
               /\ UNCHANGED <<balance, position, trades>>
          ELSE /\ lastCall'.ret = TRUE
               /\ position' # NoPosition
               /\ Len(trades') = Len(trades) + 1
               /\ SubSeq(trades', 1, Len(trades)) = trades
               /\ trades'[Len(trades')].action = "ENTER"
               /\ balance' < balance ]_vars

\* an entry was refused on a balance that a losing exit left under the
\* floor
C29_Witness ==
    /\ lastCall.op = "enter_position"
    /\ lastCall.ret = FALSE
    /\ position = NoPosition
    /\ balance < MinBalance * Unit
    /\ Len(trades) = 2

-----------------------------------------------------------------------------
(* The Signal Engine: SignalDetector.detect_signals_for_symbol, the class
   defined last in market_analyzer.py *)

\* signal_cooldown_minutes
SignalCooldownMinutes == 60

\* calls followed: the clock stops MaxScans cooldowns after the start
MaxScans == 2

\* two of the types the detectors give, in the order they are run
SignalTypes == << "GOLDEN_CROSS", "MACD_BULLISH_CROSS" >>

\* strengths both detectors can give (none gives LOW)
Strengths == {"MEDIUM", "HIGH"}

\* _get_strength_score
StrengthScore(strength) ==
    CASE strength = "VERY_HIGH" -> 4
      [] strength = "HIGH"      -> 3
      [] strength = "MEDIUM"    -> 2
      [] OTHER                  -> 1

\* what the detectors find in one call: nothing (also when the candles are
\* too few), one of the types, or both, each with a strength
Detections ==
    {<< >>}
    \cup {<< [type |-> SignalTypes[i], strength |-> st] >> : i \in {1, 2}, st \in Strengths}
    \cup {<< [type |-> SignalTypes[1], strength |-> a],
             [type |-> SignalTypes[2], strength |-> b] >> : a, b \in Strengths}

\* seconds between two calls: half a cooldown, a cooldown
ScanDelays == {SignalCooldownMinutes * 30, SignalCooldownMinutes * 60}

\* signal_key = f"{symbol}_ANALYSIS"
SignalKey(symbol) == symbol \o "_ANALYSIS"

\* the signals of seq that f accepts, in their order
RECURSIVE Select(_, _)
Select(seq, score) ==
    IF seq = << >> THEN << >>
    ELSE (IF StrengthScore(Head(seq).strength) = score THEN << Head(seq) >> ELSE << >>)
         \o Select(Tail(seq), score)

\* lines 1862-1867: the signals of MEDIUM strength and above, strongest
\* first (the sort is stable), at most three
FinalSignals(detected) ==
    LET sorted == Select(detected, 4) \o Select(detected, 3) \o Select(detected, 2)
    IN  SubSeq(sorted, 1, IF Len(sorted) < 3 THEN Len(sorted) ELSE 3)

\* detect_signals_for_symbol whose cooldown still holds when exactly
\* signal_cooldown_minutes have passed
DetectSignalsForSymbolLate(history, raw_symbol, detected, time) ==
    LET symbol == NormalizeSymbol(raw_symbol)
        key    == SignalKey(symbol)
    IN  IF history[key] # None /\ time - history[key] <= SignalCooldownMinutes * 60
        THEN [history |-> history, ret |-> << >>]
        ELSE IF detected = << >>
             THEN [history |-> history, ret |-> << >>]
             ELSE [history |-> [history EXCEPT ![key] = time],
                   ret     |-> FinalSignals(detected)]

\* detect_signals_for_symbol(symbol) at the given time, the detectors
\* finding detected: the history after the call and the signals returned
DetectSignalsForSymbol(history, raw_symbol, detected, time) ==
    LET symbol == NormalizeSymbol(raw_symbol)
        key    == SignalKey(symbol)
    IN  IF history[key] # None /\ time - history[key] < SignalCooldownMinutes * 60
        THEN [history |-> history, ret |-> << >>]
        ELSE IF detected = << >>
             THEN [history |-> history, ret |-> << >>]
             ELSE [history |-> [history EXCEPT ![key] = time],
                   ret     |-> FinalSignals(detected)]

\* the scheduler's job, through detect_signals_for_all_symbols, calls
\* detect_signals_for_symbol on its SignalDetector, delay seconds after the
\* last call
DetectSignals(raw_symbol, detected, delay) ==
    /\ now + delay <= StartOfTime + MaxScans * SignalCooldownMinutes * 60
    /\ now' = now + delay
    /\ \E r \in {DetectSignalsForSymbol(signal_history, raw_symbol, detected, now + delay)} :
          /\ signal_history' = r.history
          /\ emitted' = emitted \o [i \in 1 .. Len(r.ret) |->
                                       [time   |-> now + delay,
                                        symbol |-> NormalizeSymbol(raw_symbol),
                                        type   |-> r.ret[i].type]]
          /\ lastCall' = [op |-> "detect_signals_for_symbol",
                          symbol |-> NormalizeSymbol(raw_symbol),
                          detected |-> detected, ret |-> r.ret, log |-> ""]
    /\ UNCHANGED <<initial_balance, ledgerVars, pc, loc, monitor, loops, lastTick>>

NextSignals ==
    \E s \in RawSymbols, d \in Detections, t \in ScanDelays : DetectSignals(s, d, t)

SpecSignals == Init /\ [][NextSignals]_vars

\* the call of this step returned a signal of the type
ReturnedNow(type) == \E i \in DOMAIN lastCall'.ret : lastCall'.ret[i].type = type

\* a signal of the type was returned for the symbol less than a cooldown
\* before the call of this step
ReturnedLately(symbol, type) ==
    \E i \in DOMAIN emitted :
        /\ emitted[i].symbol = symbol
        /\ emitted[i].type = type
        /\ now' - emitted[i].time < SignalCooldownMinutes * 60

\* C30: a signal of medium strength or above that the detectors find for a
\* symbol is held back exactly when a signal of the same type was returned
\* for the same symbol less than a cooldown ago; other types and other
\* symbols do not hold it back.
C30_CooldownPerSymbolAndType ==
    [][ (now' # now /\ lastCall'.op = "detect_signals_for_symbol") =>
          \A i \in DOMAIN lastCall'.detected :
             StrengthScore(lastCall'.detected[i].strength) >= 2 =>
                ( ~ReturnedNow(lastCall'.detected[i].type)
                  <=> ReturnedLately(lastCall'.symbol, lastCall'.detected[i].type) ) ]_vars

\* the step is a call of detect_signals_for_symbol
DetectStep == now' # now /\ lastCall'.op = "detect_signals_for_symbol"

\* the call before this step was made for the same symbol on the same
\* findings and returned a signal of the type
SameDataReturned(type) ==
    /\ lastCall.op = "detect_signals_for_symbol"
    /\ lastCall.symbol = lastCall'.symbol
    /\ lastCall.detected = lastCall'.detected
    /\ \E i \in DOMAIN lastCall.ret : lastCall.ret[i].type = type

\* C31: when a call returned a signal of a type for a symbol and the next
\* call presents the same findings for that symbol, the signal is returned
\* again exactly when at least a cooldown has passed between the two calls.
C31_RefiresAfterCooldown ==
    [][ DetectStep =>
          \A k \in DOMAIN SignalTypes :
             SameDataReturned(SignalTypes[k]) =>
                ( ReturnedNow(SignalTypes[k])
                  <=> now' - now >= SignalCooldownMinutes * 60 ) ]_vars

\* a signal was returned twice for one symbol, exactly a cooldown apart
C31_Witness ==
    /\ lastCall.op = "detect_signals_for_symbol"
    /\ Len(lastCall.ret) = 1
    /\ Len(emitted) = 2
    /\ emitted[1].symbol = emitted[2].symbol
    /\ emitted[1].type = emitted[2].type
    /\ emitted[2].time = now
    /\ now - emitted[1].time = SignalCooldownMinutes * 60

-----------------------------------------------------------------------------
(* The ranking of the signals one call found, lines 1861-1872 *)

\* the 'priority' the detector of the type gives a signal of the strength
SignalPriority(type, strength) ==
    CASE type \in {"GOLDEN_CROSS", "DEAD_CROSS", "RSI_OVERSOLD_REVERSAL"} ->
            IF strength = "VERY_HIGH" THEN 4 ELSE 3
      [] type = "MACD_BULLISH_CROSS" ->
            IF strength = "HIGH" THEN 3 ELSE 2
      [] OTHER -> 3

\* what one detector adds to detected_signals: nothing, or its signal
Finding(type, strength) ==
    IF strength = "" THEN << >>
    ELSE << [type |-> type, strength |-> strength,
             priority |-> SignalPriority(type, strength)] >>

\* detected_signals after four of the detectors, in the order they run,
\* each finding nothing or a signal of a strength it can give
RankedFindings ==
    { Finding("GOLDEN_CROSS", a) \o Finding("MACD_BULLISH_CROSS", b)
      \o Finding("RSI_OVERSOLD_REVERSAL", c) \o Finding("BB_UPWARD_BREAKOUT", d) :
        a \in {"", "MEDIUM", "HIGH", "VERY_HIGH"}, b \in {"", "MEDIUM", "HIGH"},
        c \in {"", "MEDIUM", "HIGH", "VERY_HIGH"}, d \in {"", "HIGH"} }

InitRank ==
    /\ lastCall \in [op : {"final_signals"}, detected : RankedFindings,
                     ret : {<< >>}, done : {FALSE}]
    /\ initial_balance = DefaultInitialBalance * Unit
    /\ balance = initial_balance
    /\ position = NoPosition
    /\ trades = << >>
    /\ pc = [t \in Threads |-> "idle"]
    /\ loc = [t \in Threads |-> NoLocals]
    /\ monitor = NewMonitor
    /\ now = StartOfTime
    /\ loops = << >>
    /\ lastTick = NoTick
    /\ signal_history = NoSignalHistory
    /\ emitted = << >>

\* the filter, the sort and the cut are applied to the findings
FinalSignalsCall ==
    /\ ~lastCall.done
    /\ lastCall' = [lastCall EXCEPT !.ret = FinalSignals(lastCall.detected),
                                    !.done = TRUE]
    /\ UNCHANGED <<initial_balance, signalVars, ledgerVars, pc, loc, monitorVars>>

SpecRank == InitRank /\ [][FinalSignalsCall]_vars

\* priority x strength of a signal
Rank(sig) == sig.priority * StrengthScore(sig.strength)

\* C32: at most three signals are returned, each of MEDIUM strength or
\* above and each one of those found; no signal left out ranks higher by
\* priority x strength than one returned, and those returned are listed
\* with priority x strength not increasing.
C32_RankedByPriorityStrength ==
    lastCall.done =>
        LET ret == lastCall.ret
            det == lastCall.detected
        IN  /\ Len(ret) <= 3
            /\ \A i \in DOMAIN ret : /\ StrengthScore(ret[i].strength) >= 2
                                     /\ \E j \in DOMAIN det : det[j] = ret[i]
            /\ \A i, j \in DOMAIN ret : i < j => Rank(ret[i]) >= Rank(ret[j])
            /\ \A j \in DOMAIN det :
                  (\A i \in DOMAIN ret : ret[i] # det[j])
                     => \A i \in DOMAIN ret : Rank(ret[i]) >= Rank(det[j])

-----------------------------------------------------------------------------
(* The moving-average crossover detector, _detect_real_ma_crossover.  The
   series are the last samples of ma_20 and ma_50 as
   calculate_all_indicators_timeseries gives them for 100 candles and more:
   numbers, the slow average positive. Values are in cents. *)

\* strength of a crossover: diff_pct = |curr_diff| / slow * 100, VERY_HIGH
\* over 1.0, HIGH over 0.5, else MEDIUM
CrossStrength(curr_diff, slow) ==
    LET a == IF curr_diff < 0 THEN -curr_diff ELSE curr_diff
    IN  IF a * 100 > slow THEN "VERY_HIGH"
        ELSE IF a * 200 > slow THEN "HIGH" ELSE "MEDIUM"

\* the detector that takes a crossover only from a difference that was
\* strictly on the other side
DetectRealMaCrossoverStrict(ma_20_series, ma_50_series) ==
    IF Len(ma_20_series) < 5 \/ Len(ma_50_series) < 5 THEN << >>
    ELSE LET prev_diff == ma_20_series[Len(ma_20_series) - 1]
                          - ma_50_series[Len(ma_50_series) - 1]
             curr_diff == ma_20_series[Len(ma_20_series)] - ma_50_series[Len(ma_50_series)]
             strength  == CrossStrength(curr_diff, ma_50_series[Len(ma_50_series)])
         IN  IF prev_diff < 0 /\ curr_diff > 0
             THEN Finding("GOLDEN_CROSS", strength)
             ELSE IF prev_diff > 0 /\ curr_diff < 0
                  THEN Finding("DEAD_CROSS", strength)
                  ELSE << >>

\* _detect_real_ma_crossover(timeseries): the signals it returns
DetectRealMaCrossover(ma_20_series, ma_50_series) ==
    IF Len(ma_20_series) < 5 \/ Len(ma_50_series) < 5 THEN << >>
    ELSE LET prev_diff == ma_20_series[Len(ma_20_series) - 1]
                          - ma_50_series[Len(ma_50_series) - 1]
             curr_diff == ma_20_series[Len(ma_20_series)] - ma_50_series[Len(ma_50_series)]
             strength  == CrossStrength(curr_diff, ma_50_series[Len(ma_50_series)])
         IN  IF prev_diff <= 0 /\ curr_diff > 0
             THEN Finding("GOLDEN_CROSS", strength)
             ELSE IF prev_diff >= 0 /\ curr_diff < 0
                  THEN Finding("DEAD_CROSS", strength)
                  ELSE << >>

\* samples of the fast average around a slow average near 100.00
FastSamples == {9940, 9990, 10000, 10010, 10060, 10110}

SlowSamples == {10000, 10010}

\* the fast average three samples and more back: under or over the slow one
OlderFastSamples == {9900, 10100}

\* series of five samples: three older ones, the last but one, the last
MaSeries(older, prev, curr) == << older, older, older, prev, curr >>

InitCross ==
    /\ lastCall \in [op : {"_detect_real_ma_crossover"},
                     ma_20 : {MaSeries(o, p, c) : o \in OlderFastSamples,
                                                  p \in FastSamples, c \in FastSamples},
                     ma_50 : {MaSeries(10000, p, c) : p \in SlowSamples, c \in SlowSamples},
                     ret : {<< >>}, done : {FALSE}]
    /\ initial_balance = DefaultInitialBalance * Unit
    /\ balance = initial_balance
    /\ position = NoPosition
    /\ trades = << >>
    /\ pc = [t \in Threads |-> "idle"]
    /\ loc = [t \in Threads |-> NoLocals]
    /\ monitor = NewMonitor
    /\ now = StartOfTime
    /\ loops = << >>
    /\ lastTick = NoTick
    /\ signal_history = NoSignalHistory
    /\ emitted = << >>

MaCrossoverCall ==
    /\ ~lastCall.done
    /\ lastCall' = [lastCall EXCEPT
                       !.ret = DetectRealMaCrossover(lastCall.ma_20, lastCall.ma_50),
                       !.done = TRUE]
    /\ UNCHANGED <<initial_balance, signalVars, ledgerVars, pc, loc, monitorVars>>

SpecCross == InitCross /\ [][MaCrossoverCall]_vars

\* fast - slow at sample i of the series the detector was given
FastOverSlow(i) == lastCall.ma_20[i] - lastCall.ma_50[i]

\* C33: the detector returns exactly one GOLDEN_CROSS when fast - slow was
\* not positive at the last sample but one and is positive at the last,
\* exactly one DEAD_CROSS when it was not negative and is negative, and
\* nothing otherwise, whatever the older samples; nothing in particular
\* when fast equals slow at the last sample.
C33_CrossoverOnLastTwoSamples ==
    lastCall.done =>
        LET ret == lastCall.ret
        IN  /\ (FastOverSlow(4) <= 0 /\ FastOverSlow(5) > 0)
                 => (Len(ret) = 1 /\ ret[1].type = "GOLDEN_CROSS")
            /\ (FastOverSlow(4) >= 0 /\ FastOverSlow(5) < 0)
                 => (Len(ret) = 1 /\ ret[1].type = "DEAD_CROSS")
            /\ ( ~(FastOverSlow(4) <= 0 /\ FastOverSlow(5) > 0)
                 /\ ~(FastOverSlow(4) >= 0 /\ FastOverSlow(5) < 0) ) => ret = << >>
            /\ FastOverSlow(5) = 0 => ret = << >>

\* the fast average, over the slow one in the older samples, met it at
\* the last sample but one and rose over it at the last: one GOLDEN_CROSS
C33_Witness ==
    /\ lastCall.op = "_detect_real_ma_crossover"
    /\ lastCall.done
    /\ FastOverSlow(1) > 0
    /\ FastOverSlow(4) = 0
    /\ FastOverSlow(5) > 0
    /\ Len(lastCall.ret) = 1
    /\ lastCall.ret[1].type = "GOLDEN_CROSS"

-----------------------------------------------------------------------------
(* exit_position called with every reason and fraction its signature
   takes, on positions whose watermarks and trailing stop have moved. *)

\* reasons an exit is called with: the default and the scheduled partial
\* take-profit
ExitReasons == {"Manual", "Partial Take Profit"}

\* fractions an exit closes: the scheduled half, or all
ExitRatios == {PartialTakeProfitRatio, FullRatio}

\* an exit_position that flags the remainder of every partial exit
ExitPositionCallFlagsAll(exit_price, reason, partial_ratio) ==
    /\ Len(trades) < MaxTrades
    /\ (HasPosition(Ledger) /\ partial_ratio < FullRatio) =>
          Halvable(Pos(Ledger).position_size) /\ Halvable(Pos(Ledger).invested_amount)
    /\ \E r \in {ExitPosition(Ledger, exit_price, reason, partial_ratio)} :
           /\ Becomes([r.ledger EXCEPT !.position =
                          IF @ = NoPosition THEN @
                          ELSE << [@[1] EXCEPT !.partial_profit_taken = TRUE] >>])
           /\ lastCall' = [op |-> "exit_position", reason |-> reason,
                           partial_ratio |-> partial_ratio, ret |-> r.ret]
    /\ UNCHANGED <<monitorVars, initial_balance, signalVars, pc, loc>>

\* exit_position(exit_price, reason, partial_ratio) called on the ledger
ExitPositionCall(exit_price, reason, partial_ratio) ==
    /\ Len(trades) < MaxTrades
    /\ (HasPosition(Ledger) /\ partial_ratio < FullRatio) =>
          Halvable(Pos(Ledger).position_size) /\ Halvable(Pos(Ledger).invested_amount)
    /\ \E r \in {ExitPosition(Ledger, exit_price, reason, partial_ratio)} :
           /\ Becomes(r.ledger)
           /\ lastCall' = [op |-> "exit_position", reason |-> reason,
                           partial_ratio |-> partial_ratio, ret |-> r.ret]
    /\ UNCHANGED <<monitorVars, initial_balance, signalVars, pc, loc>>

NextPartial ==
    \/ \E s \in RawSymbols, d \in Directions, p \in EntryPrices, l \in Leverages,
          ts \in TargetStops : Enter(s, d, p, l, ts[1], ts[2])
    \/ \E p \in Prices : TrailingStopUpdate(p)
    \/ \E p \in Prices, reason \in ExitReasons, f \in ExitRatios :
          ExitPositionCall(p, reason, f)

SpecPartial == Init /\ [][NextPartial]_vars

\* the step is an exit_position of a fraction below one on an open position
PartialExitStep ==
    /\ position # NoPosition
    /\ lastCall'.op = "exit_position"
    /\ lastCall'.partial_ratio < FullRatio
    /\ Len(trades') = Len(trades) + 1

\* C34: an exit of a fraction below one (the half the program takes) leaves
\* the position open with its size and its invested margin halved, its
\* accumulated fees raised by the exit fee, its partial-profit flag set if
\* the reason is "Partial Take Profit" and as it was otherwise, and every
\* other field (symbol, direction, entry price, leverage, target, stop,
\* watermarks, trailing stop, entry fee, entry time) as it was.
C34_PartialExitFrame ==
    [][ PartialExitStep =>
        /\ position' # NoPosition
        /\ lastCall'.ret # << >>
        /\ LET old == position[1]
               new == position'[1]
               fee == lastCall'.ret[1].exit_fee
           IN  /\ lastCall'.partial_ratio = PartialTakeProfitRatio
               /\ 2 * new.position_size = old.position_size
               /\ 2 * new.invested_amount = old.invested_amount
               /\ new.total_fees_paid = old.total_fees_paid + fee
               /\ new.partial_profit_taken =
                     (old.partial_profit_taken
                        \/ lastCall'.reason = "Partial Take Profit")
               /\ new = [old EXCEPT
                           !.position_size = new.position_size,
                           !.invested_amount = new.invested_amount,
                           !.total_fees_paid = new.total_fees_paid,
                           !.partial_profit_taken = new.partial_profit_taken] ]_vars

\* half of a position with a target, a stop and a trailing stop was closed
\* for a reason other than the partial take-profit: the remainder is open
\* and unflagged with its trailing stop, target and stop in place
C34_Witness ==
    /\ lastCall.op = "exit_position"
    /\ lastCall.reason = "Manual"
    /\ lastCall.partial_ratio = PartialTakeProfitRatio
    /\ lastCall.ret # << >>
    /\ position # NoPosition
    /\ ~position[1].partial_profit_taken
    /\ position[1].trailing_stop_price # None
    /\ position[1].target_price # None
    /\ position[1].stop_loss # None
    /\ position[1].total_fees_paid > position[1].entry_fee

-----------------------------------------------------------------------------
(* The apply-decision path: master_agent.make_trading_decision with the
   agent available and a price known; the decision is the Decision
   Source's answer. *)

TradingDecisions == {"ENTER", "EXIT", "HOLD"}

\* _execute_trading_decision(master_decision): the ledger it leaves and
\* the 'action' and 'success' it returns
ExecuteTradingDecision(L, d) ==
    IF d.trading_decision = "EXIT"
    THEN IF HasPosition(L)
         THEN Only({ [ledger |-> r.ledger, action |-> "EXIT", success |-> r.ret # << >>]
                     : r \in {ExitPosition(L, d.current_price, "Master Agent Decision",
                                           FullRatio)} })
         ELSE [ledger |-> L, action |-> "EXIT", success |-> FALSE]
    ELSE IF d.trading_decision = "ENTER"
    THEN IF HasPosition(L) /\ Pos(L).symbol = d.symbol /\ Pos(L).direction = d.direction
         THEN [ledger |-> L, action |-> "ENTER", success |-> FALSE]
         ELSE IF HasPosition(L) /\ Pos(L).symbol = d.symbol
         THEN Only({ [ledger |-> e.ledger, action |-> "POSITION_FLIP", success |-> e.ret]
                     : e \in {EnterPosition(L, d.symbol, d.direction, d.current_price,
                                            d.leverage, d.target_price, d.stop_loss,
                                            FALSE)} })
         ELSE IF HasPosition(L)
         THEN Only({ [ledger |-> e.ledger, action |-> "SYMBOL_SWITCH", success |-> e.ret]
                     : e \in {EnterPosition(
                                  ExitPosition(L, d.current_price, "Symbol Switch",
                                               FullRatio).ledger,
                                  d.symbol, d.direction, d.current_price,
                                  d.leverage, d.target_price, d.stop_loss, FALSE)} })
         ELSE Only({ [ledger |-> e.ledger, action |-> "ENTER", success |-> e.ret]
                     : e \in {EnterPosition(L, d.symbol, d.direction, d.current_price,
                                            d.leverage, d.target_price, d.stop_loss,
                                            FALSE)} })
    ELSE [ledger |-> L, action |-> "HOLD", success |-> TRUE]

\* make_trading_decision(individual_analysis) when the Decision Source
\* answers d: with a position open, line 82 calls
\* virtual_portfolio.check_stop_loss_target, which VirtualPortfolio does not
\* have; the AttributeError is caught at line 129 and the call returns None
\* before the Decision Source is asked. Without a position the answer is
\* executed and returned.
MakeTradingDecision(d) ==
    /\ Len(trades) < MaxTrades
    /\ IF HasPosition(Ledger)
       THEN /\ UNCHANGED ledgerVars
            /\ lastCall' = [op |-> "make_trading_decision", decision |-> d,
                            ret |-> << >>]
       ELSE \E r \in {ExecuteTradingDecision(Ledger, d)} :
               /\ Becomes(r.ledger)
               /\ lastCall' = [op |-> "make_trading_decision", decision |-> d,
                               ret |-> << [action |-> r.action,
                                           success |-> r.success] >>]
    /\ UNCHANGED <<monitorVars, initial_balance, signalVars, pc, loc>>

\* answers of the Decision Source for a symbol at a price
DecisionAnswers ==
    [trading_decision : TradingDecisions, symbol : RawSymbols, direction : Directions,
     current_price : EntryPrices, leverage : {1},
     target_price : {None, 3000}, stop_loss : {None}]

NextDecision ==
    \/ \E d \in DecisionAnswers : MakeTradingDecision(d)
    \/ \E p \in Prices : ManualPositionExit(p)

SpecDecision == Init /\ [][NextDecision]_vars

\* the step is a make_trading_decision whose answer is EXIT, taken with a
\* position open
ExitDecided ==
    /\ position # NoPosition
    /\ lastCall'.op = "make_trading_decision"
    /\ lastCall'.decision.trading_decision = "EXIT"
    /\ (lastCall.op # "make_trading_decision" \/ lastCall' # lastCall)

\* C35: a make_trading_decision whose answer is EXIT, made while a position
\* is open, closes the position in full and appends one EXIT row.
C35_ExitDecisionExecuted ==
    [][ ExitDecided =>
        /\ position' = NoPosition
        /\ Len(trades') = Len(trades) + 1
        /\ trades'[Len(trades')].action = "EXIT" ]_vars

-----------------------------------------------------------------------------
\* the order in which check_position_signals lists its tags
TagOrder == << "TARGET_REACHED", "TRAILING_STOP", "PARTIAL_TAKE_PROFIT" >>

\* place of a tag in TagOrder
TagRank(tag) == CHOOSE i \in 1 .. Len(TagOrder) : TagOrder[i] = tag

\* the number of handlers of the tick that closed the position or a part
ExitActs(acts) ==
    Cardinality({i \in 1 .. Len(acts) : acts[i] \in {"full exit", "partial exit"}})

\* C36: in every monitor tick the tags are handled one by one in the order
\* TARGET_REACHED, TRAILING_STOP, PARTIAL_TAKE_PROFIT; once a handler of the
\* tick has closed the position in full, every later handler of the tick
\* finds no position and does nothing: the tick appends one EXIT row per
\* handler that exited, the full exit's row is the last one, and the
\* position is gone.
C36_HandlersInOrderStopAfterClose ==
    [][ TickStep =>
        LET signals == lastTick'.signals
            acts    == lastTick'.acts
        IN  /\ Len(acts) = Len(signals)
            /\ \A i \in 1 .. Len(signals) : \E k \in 1 .. Len(TagOrder) : TagOrder[k] = signals[i]
            /\ \A i, j \in 1 .. Len(signals) :
                   i < j => TagRank(signals[i]) < TagRank(signals[j])
            /\ Len(trades') = Len(trades) + ExitActs(acts)
            /\ \A i \in 1 .. Len(acts) :
                   acts[i] = "full exit" =>
                       /\ \A j \in i + 1 .. Len(acts) : acts[j] = "no position"
                       /\ position' = NoPosition
                       /\ trades'[Len(trades')].action = "EXIT"
                       /\ trades'[Len(trades')].exit_reason
                             = (IF signals[i] = "TARGET_REACHED"
                                THEN "Target Reached - Exit Signal"
                                ELSE "Trailing Stop") ]_vars

\* a tick found the target reached and the trailing stop hit together:
\* the first handler closed the position, the second found none
C36_Witness ==
    /\ Len(lastTick.signals) >= 2
    /\ lastTick.signals[1] = "TARGET_REACHED"
    /\ lastTick.signals[2] = "TRAILING_STOP"
    /\ lastTick.acts[1] = "full exit"
    /\ lastTick.acts[2] = "no position"
    /\ position = NoPosition
    /\ trades[Len(trades)].exit_reason = "Target Reached - Exit Signal"

-----------------------------------------------------------------------------
\* C37: whenever a position is open, its size times its entry fill price
\* is its invested margin times its leverage, up to the rounding of the
\* size to its last place: after the entry, after a forced entry, after
\* every partial exit and after every trailing-stop update.
C37_SizeTimesPriceIsLeveragedMargin ==
    position # NoPosition =>
        IsShare(position[1].position_size,
                position[1].invested_amount * position[1].leverage,
                SizeUnit, position[1].entry_price)

\* a leveraged position whose trailing stop has been set and of which the
\* partial profit has been taken
C37_Witness ==
    /\ position # NoPosition
    /\ position[1].leverage = 2
    /\ position[1].partial_profit_taken
    /\ position[1].trailing_stop_price # None
    /\ position[1].position_size > 0

-----------------------------------------------------------------------------
(* Round trips: enter_position at a price followed at once by a full
   exit_position at the same price. Each call's record keeps the price it
   was given; the exit's record also keeps what the entry before it, if the
   call before it was one, found and did. *)

\* enter_position(symbol, direction, entry_price, leverage)
EnterPositionCall(raw_symbol, direction, entry_price, leverage) ==
    /\ Len(trades) <= MaxTrades
    /\ \E r \in {EnterPosition(Ledger, raw_symbol, direction, entry_price, leverage,
                              None, None, FALSE)} :
           /\ Becomes(r.ledger)
           /\ lastCall' = [op |-> "enter_position", ret |-> r.ret, log |-> r.log,
                           price |-> entry_price, balance_before |-> balance]
    /\ UNCHANGED <<monitorVars, initial_balance, signalVars, pc, loc>>

\* a full exit that is filled a thousand cents off the market in the
\* position's favour
FullExitCallInFavour(exit_price) ==
    /\ Len(trades) <= MaxTrades + 1
    /\ \E r \in {IF HasPosition(Ledger)
                THEN ExitPosition(Ledger,
                                  IF Pos(Ledger).direction = "LONG"
                                  THEN exit_price + 1000 ELSE exit_price - 1000,
                                  "Manual", FullRatio)
                ELSE ExitPosition(Ledger, exit_price, "Manual", FullRatio)} :
           /\ Becomes(r.ledger)
           /\ lastCall' = [op |-> "exit_position", ret |-> r.ret, log |-> "",
                           price |-> exit_price,
                           entry |-> IF lastCall.op = "enter_position" /\ lastCall.ret
                                     THEN << lastCall >> ELSE << >>]
    /\ UNCHANGED <<monitorVars, initial_balance, signalVars, pc, loc>>

\* exit_position(exit_price) with the default reason and fraction
FullExitCall(exit_price) ==
    /\ Len(trades) <= MaxTrades + 1
    /\ \E r \in {ExitPosition(Ledger, exit_price, "Manual", FullRatio)} :
           /\ Becomes(r.ledger)
           /\ lastCall' = [op |-> "exit_position", ret |-> r.ret, log |-> "",
                           price |-> exit_price,
                           entry |-> IF lastCall.op = "enter_position" /\ lastCall.ret
                                     THEN << lastCall >> ELSE << >>]
    /\ UNCHANGED <<monitorVars, initial_balance, signalVars, pc, loc>>

NextRoundTrip ==
    \/ \E s \in RawSymbols, d \in Directions, p \in EntryPrices, l \in Leverages :
          EnterPositionCall(s, d, p, l)
    \/ \E p \in Prices : FullExitCall(p)

SpecRoundTrip == Init /\ [][NextRoundTrip]_vars

\* the step is the full exit of a round trip: the call before it was a
\* successful enter_position at the price this exit is given
RoundTripExit ==
    /\ position # NoPosition
    /\ lastCall.op = "enter_position"
    /\ lastCall.ret
    /\ lastCall'.op = "exit_position"
    /\ lastCall'.price = lastCall.price

\* C38 as stated: every round trip, on either side and with any leverage,
\* has a negative realized PnL and leaves the balance strictly below the
\* balance before the entry.
C38_RoundTripLoses ==
    [][ RoundTripExit =>
        /\ lastCall'.ret # << >>
        /\ lastCall'.ret[1].realized_pnl < 0
        /\ balance' < lastCall.balance_before ]_vars

\* C38, amended: every round trip has a negative realized PnL, and when the
\* entry found no position open it leaves the balance strictly below the
\* balance before the entry; the balance ends above it only when the entry
\* first closed a position that was open.
C38_RoundTripLosesOnEmptyLedger ==
    [][ RoundTripExit =>
        /\ lastCall'.ret # << >>
        /\ lastCall'.ret[1].realized_pnl < 0
        /\ lastCall.log = "entered" => balance' < lastCall.balance_before
        /\ balance' >= lastCall.balance_before
              => lastCall.log \in {"switched", "flipped"} ]_vars

\* a leveraged short entered on the empty ledger at 20.00 was closed at
\* 20.00 at a loss
C38_Witness ==
    /\ lastCall.op = "exit_position"
    /\ lastCall.entry # << >>
    /\ lastCall.entry[1].log = "entered"
    /\ lastCall.entry[1].price = 2000
    /\ lastCall.price = 2000
    /\ lastCall.ret # << >>
    /\ lastCall.ret[1].direction = "SHORT"
    /\ lastCall.ret[1].realized_pnl < 0
    /\ position = NoPosition
    /\ trades[Len(trades) - 1].leverage = 2
    /\ balance < lastCall.entry[1].balance_before

-----------------------------------------------------------------------------
\* the price is beyond the position's watermark on its favourable side:
\* update_trailing_stop at this price ratchets and returns True
BeyondWatermark(p, price) ==
    IF p.direction = "LONG" THEN price > p.highest_price ELSE price < p.lowest_price

\* no price beyond the entry fill has been seen for the position yet
AtEntryWatermark(p) ==
    IF p.direction = "LONG" THEN p.highest_price = p.entry_price
    ELSE p.lowest_price = p.entry_price

\* C39: in a monitor tick whose update_trailing_stop ratchets the stop (the
\* price is beyond the watermark), the tags of the tick do not contain
\* TRAILING_STOP; and as long as no price beyond the entry fill on the
\* favourable side has been seen, the trailing stop is unset, a tick at a
\* price not beyond the fill leaves it unset and returns no TRAILING_STOP.
C39_NoStopOnRatchetNorBeforeFirstGain ==
    [][ (TickStep /\ position # NoPosition /\ lastTick'.price # None) =>
        LET p     == position[1]
            price == lastTick'.price
        IN  /\ BeyondWatermark(p, price) => ~Has(lastTick'.signals, "TRAILING_STOP")
            /\ AtEntryWatermark(p) => p.trailing_stop_price = None
            /\ (AtEntryWatermark(p) /\ ~BeyondWatermark(p, price)) =>
                  /\ ~Has(lastTick'.signals, "TRAILING_STOP")
                  /\ position' # NoPosition =>
                        position'[1].trailing_stop_price = None ]_vars

\* the first tick after the entry came at a price beyond the fill: it set
\* the trailing stop and found other tags, but no TRAILING_STOP
C39_Witness ==
    /\ monitor.check_count = 1
    /\ position # NoPosition
    /\ lastTick.price # None
    /\ position[1].direction = "SHORT"
    /\ position[1].lowest_price = lastTick.price
    /\ position[1].lowest_price < position[1].entry_price
    /\ position[1].trailing_stop_price # None
    /\ lastTick.signals # << >>
    /\ ~Has(lastTick.signals, "TRAILING_STOP")

-----------------------------------------------------------------------------
(* Two runs of the ledger and the monitor side by side: the same calls
   with the same prices and the same answers of the Decision Source, the
   stop price given to enter_position chosen apart for each. The first run
   is the ledger and the monitor; the second run's ledger, cooldown map and
   results travel in the call record. *)

\* stop prices given to enter_position in the one run and in the other:
\* none, or one the prices cross
StopPairs == {<< None, 2500 >>, << 2500, 3500 >>}

\* what the Decision Source does in both runs
PairOutcomes ==
    {[kind |-> "answer", recommendation |-> r, confidence |-> MinConfidence + 1] :
        r \in Recommendations}
    \cup {[kind |-> "unavailable", recommendation |-> "", confidence |-> 0]}

\* seconds from one tick of the pair to the next one followed here: a
\* whole cooldown, so that every tick may ask the Decision Source
PairDelays == {AnalysisCooldown}

\* a ledger with the recorded stop prices taken out
WithoutStops(L) ==
    [balance  |-> L.balance,
     position |-> IF L.position = NoPosition THEN NoPosition
                  ELSE << [L.position[1] EXCEPT !.stop_loss = None] >>,
     trades   |-> [i \in DOMAIN L.trades |-> [L.trades[i] EXCEPT !.stop_loss = None]]]

InitStops ==
    /\ initial_balance = DefaultInitialBalance * Unit
    /\ balance = initial_balance
    /\ position = NoPosition
    /\ trades = << >>
    /\ lastCall = [op |-> "start_monitoring", ret |-> << >>, twin_ret |-> << >>,
                   twin |-> [balance |-> initial_balance, position |-> NoPosition,
                             trades |-> << >>],
                   twin_last_analysis_time |-> NewMonitor.last_analysis_time]
    /\ pc = [t \in Threads |-> "idle"]
    /\ loc = [t \in Threads |-> NoLocals]
    /\ monitor = [NewMonitor EXCEPT !.running = TRUE]
    /\ now = StartOfTime
    /\ loops = << "while" >>
    /\ lastTick = NoTick
    /\ signal_history = NoSignalHistory
    /\ emitted = << >>

\* enter_position on the empty ledger in both runs, with a stop price for
\* each
EnterPair(raw_symbol, direction, entry_price, target_price, stop_loss, twin_stop_loss) ==
    /\ Len(trades) < MaxTrades
    /\ position = NoPosition
    /\ \E r \in {EnterPosition(Ledger, raw_symbol, direction, entry_price, 1,
                              target_price, stop_loss, FALSE)},
          r2 \in {EnterPosition(lastCall.twin, raw_symbol, direction, entry_price, 1,
                               target_price, twin_stop_loss, FALSE)} :
           /\ Becomes(r.ledger)
           /\ lastCall' = [lastCall EXCEPT !.op = "enter_position",
                                           !.ret = << r.ret >>,
                                           !.twin_ret = << r2.ret >>,
                                           !.twin = r2.ledger]
    /\ UNCHANGED <<monitorVars, initial_balance, signalVars, pc, loc>>

\* exit_position in both runs
ExitPair(exit_price) ==
    /\ Len(trades) <= MaxTrades
    /\ \E r \in {ExitPosition(Ledger, exit_price, "Manual", FullRatio)},
          r2 \in {ExitPosition(lastCall.twin, exit_price, "Manual", FullRatio)} :
           /\ Becomes(r.ledger)
           /\ lastCall' = [lastCall EXCEPT !.op = "exit_position",
                                           !.ret = << r.ret # << >> >>,
                                           !.twin_ret = << r2.ret # << >> >>,
                                           !.twin = r2.ledger]
    /\ UNCHANGED <<monitorVars, initial_balance, signalVars, pc, loc>>

\* one tick of the monitor in both runs: _check_position with the same
\* price and the same answer of the Decision Source; the call record
\* keeps the tags of either run
TickPair(current_price, outcome, delay) ==
    /\ monitor.running
    /\ loops = << "while" >>
    /\ monitor.check_count < MaxTicks
    /\ Len(trades) <= MaxTrades
    /\ \E r \in {CheckPosition(Ledger, monitor.last_analysis_time, current_price,
                                outcome, now + delay)},
          r2 \in {CheckPosition(lastCall.twin, lastCall.twin_last_analysis_time,
                                current_price, outcome, now + delay)} :
          /\ ~r.inexact
          /\ ~r2.inexact
          /\ Becomes(r.ledger)
          /\ monitor' = [monitor EXCEPT
                            !.check_count = @ + 1,
                            !.signal_count = IF r.signals # << >> THEN @ + 1 ELSE @,
                            !.last_analysis_time = r.last_analysis_time]
          /\ lastTick' = [price   |-> current_price,
                          signals |-> r.signals,
                          acts    |-> r.acts,
                          calls   |-> r.calls,
                          answer  |-> IF r.calls # << >> THEN << outcome >> ELSE << >>,
                          raised  |-> FALSE]
          /\ lastCall' = [lastCall EXCEPT !.op = "_check_position",
                                          !.ret = r.signals,
                                          !.twin_ret = r2.signals,
                                          !.twin = r2.ledger,
                                          !.twin_last_analysis_time =
                                              r2.last_analysis_time]
    /\ now' = now + delay
    /\ UNCHANGED <<initial_balance, signalVars, pc, loc, loops>>

NextStops ==
    \/ \E d \in Directions, p \in EntryPrices, tp \in MonitorTargets, sl \in StopPairs :
          EnterPair("SOL/USDT", d, p, tp, sl[1], sl[2])
    \/ \E p \in Prices : ExitPair(p)
    \/ \E p \in Prices \cup {None}, o \in PairOutcomes, d \in PairDelays :
          TickPair(p, o, d)

SpecStops == InitStops /\ [][NextStops]_vars

\* C40: two runs given the same calls, prices and answers and differing
\* only in the stop prices given to enter_position have the same balance,
\* the same position and the same trade rows but for the recorded stop
\* price, the same cooldown map, and the same result of every call, the
\* tags of every tick among them; no tick therefore closes a position on
\* its stop price.
C40_StopPriceInert ==
    /\ WithoutStops(Ledger) = WithoutStops(lastCall.twin)
    /\ lastCall.ret = lastCall.twin_ret
    /\ monitor.last_analysis_time = lastCall.twin_last_analysis_time

\* a long was entered with a stop at 25.00 in one run and at 35.00 in the
\* other; a tick at 30.00, between the two, found the same tags in both
\* and left both positions open
C40_Witness ==
    /\ lastCall.op = "_check_position"
    /\ lastTick.price = 3000
    /\ position # NoPosition
    /\ position[1].direction = "LONG"
    /\ position[1].stop_loss = 2500
    /\ lastCall.twin.position # NoPosition
    /\ lastCall.twin.position[1].stop_loss = 3500
    /\ lastCall.ret # << >>
    /\ lastCall.ret = lastCall.twin_ret

====
